---- MODULE Spec2Model ----
(***************************************************************************)
(* Verification model of the Pinto DSL toolchain: lexer (lexer.ts),        *)
(* parser and AST visitor (parser.ts), layout compiler (compiler.ts).      *)
(*                                                                         *)
(* Source text is a sequence of one-character strings.  Optional values    *)
(* of the TypeScript code are tagged records (see Undef, Num, NaN, Str).   *)
(***************************************************************************)
EXTENDS Integers, Sequences, FiniteSets, TLC

VARIABLES
  input,         \* the text handed to the last tokenize or parse call
  lexResult,     \* result of the last PintoLexer.tokenize call
  parserInput,   \* parserInstance.input (the shared parser's token vector)
  parserErrors,  \* parserInstance.errors
  nodes,         \* astVisitor.nodes: Map<string, NodeAST> in insertion order
  heap,          \* every NodeAST object allocated so far, by address
  calls,         \* texts of the parse calls made so far
  returned,      \* the DocumentAST returned by each of these calls
  ast,           \* the DocumentAST handed to compile
  compilePc,     \* where the compile call stands
  frame,         \* compile's locals: nodesMap, edges, groups, elkGraph, elk
  shapes,        \* compile's result list
  elkInstance,   \* the module variable elkInstance: 0 is null, k the k-th ELK
  elkCreated,    \* number of ELK objects constructed so far
  layoutCalls,   \* the graphs handed to elk.layout so far
  uuids,         \* number of ids generateId has produced
  others,        \* the compile calls that are not running: pc, ast, frame, shapes
  canvas,        \* the shape list handed to decompile
  decompiled,    \* the texts decompile has returned
  store,         \* the canvas store: shapes, selectedIds, camera
  errors,        \* CodePanel's state errors
  isCompiling    \* CodePanel's state isCompiling

parseVars == <<input, lexResult, parserInput, parserErrors, nodes, heap,
               calls, returned>>
compileVars == <<ast, compilePc, frame, shapes, elkInstance, elkCreated,
                 layoutCalls, uuids, others>>
decompileVars == <<canvas, decompiled>>
panelVars == <<store, errors, isCompiling>>
vars == <<parseVars, compileVars, decompileVars, panelVars>>

\* F(v): a LET whose value v is computed once.
Bind(v, F(_)) == F(v)

-----------------------------------------------------------------------------
(* Characters *)

Lower == {"a","b","c","d","e","f","g","h","i","j","k","l","m",
          "n","o","p","q","r","s","t","u","v","w","x","y","z"}
Upper == {"A","B","C","D","E","F","G","H","I","J","K","L","M",
          "N","O","P","Q","R","S","T","U","V","W","X","Y","Z"}
Digit == {"0","1","2","3","4","5","6","7","8","9"}
HexChar == Digit \cup {"a","b","c","d","e","f","A","B","C","D","E","F"}
Space == {" ", "\n", "\t", "\r"}

IdStartChars == Lower \cup Upper \cup {"_"}
IdChars == Lower \cup Upper \cup Digit \cup {"_"}

IsIdStart(c) == c \in IdStartChars
IsIdChar(c) == c \in IdChars
IsDigit(c) == c \in Digit

\* Length of the longest run of characters of the set S that starts at i
\* (a greedy regular-expression star over a character class).
RECURSIVE RunIn(_, _, _)
RunIn(text, i, S) ==
  IF i > Len(text) \/ text[i] \notin S THEN 0 ELSE 1 + RunIn(text, i + 1, S)

\* The same for the characters that are not in S (a negated class).
RECURSIVE RunNotIn(_, _, _)
RunNotIn(text, i, S) ==
  IF i > Len(text) \/ text[i] \in S THEN 0 ELSE 1 + RunNotIn(text, i + 1, S)

\* Length of the literal lit when it occurs at i, else 0.
LitLen(text, i, lit) ==
  IF /\ i + Len(lit) - 1 <= Len(text)
     /\ \A k \in 1..Len(lit) : text[i + k - 1] = lit[k]
  THEN Len(lit) ELSE 0

-----------------------------------------------------------------------------
(* Lexer: lexer.ts.  Character offsets are 1-based here. *)

Chars_group     == <<"g","r","o","u","p">>
Chars_style     == <<"@","s","t","y","l","e">>
Chars_layout    == <<"@","l","a","y","o","u","t">>
Chars_rect      == <<"r","e","c","t">>
Chars_box       == <<"b","o","x">>
Chars_rectangle == <<"r","e","c","t","a","n","g","l","e">>
Chars_circle    == <<"c","i","r","c","l","e">>
Chars_oval      == <<"o","v","a","l">>
Chars_ellipse   == <<"e","l","l","i","p","s","e">>
Chars_diamond   == <<"d","i","a","m","o","n","d">>
Chars_cylinder  == <<"c","y","l","i","n","d","e","r">>
Chars_database  == <<"d","a","t","a","b","a","s","e">>
Chars_db        == <<"d","b">>
Chars_arrow     == <<"a","r","r","o","w">>

\* The tokens whose pattern is a fixed text, with that text.
LiteralPattern ==
  [ Group |-> Chars_group, Style |-> Chars_style, Layout |-> Chars_layout,
    ShapeRect |-> Chars_rect, ShapeBox |-> Chars_box,
    ShapeRectangle |-> Chars_rectangle, ShapeCircle |-> Chars_circle,
    ShapeOval |-> Chars_oval, ShapeEllipse |-> Chars_ellipse,
    ShapeDiamond |-> Chars_diamond, ShapeCylinder |-> Chars_cylinder,
    ShapeDatabase |-> Chars_database, ShapeDb |-> Chars_db,
    Arrow |-> Chars_arrow,
    ArrowBiDirectional |-> <<"<","-",">">>, ArrowLeft |-> <<"<","-">>,
    ArrowRight |-> <<"-",">">>, ArrowDottedRight |-> <<"-","-",">">>,
    ArrowThickRight |-> <<"=","=",">">>, Line |-> <<"-","-">>,
    LCurly |-> <<"{">>, RCurly |-> <<"}">>, LParen |-> <<"(">>,
    RParen |-> <<")">>, Colon |-> <<":">>, Comma |-> <<",">>, Dot |-> <<".">> ]

\* Number of characters the pattern of token type name matches at offset i
\* (0: no match; no pattern of the lexer matches the empty text).
PatternLen(name, text, i) ==
  IF i > Len(text) THEN 0
  ELSE CASE name = "Identifier" ->
              IF IsIdStart(text[i]) THEN 1 + RunIn(text, i + 1, IdChars) ELSE 0
         [] name = "StringLiteral" ->
              IF text[i] # "\"" THEN 0
              ELSE LET n == RunNotIn(text, i + 1, {"\""})
                   IN IF i + 1 + n <= Len(text) THEN n + 2 ELSE 0
         [] name = "NumberLiteral" ->
              LET sign == IF text[i] = "-" THEN 1 ELSE 0
                  d == RunIn(text, i + sign, Digit)
              IN IF d > 0 THEN sign + d ELSE 0
         [] name = "ColorLiteral" ->
              IF text[i] # "#" THEN 0
              ELSE LET h == RunIn(text, i + 1, HexChar)
                   IN IF h >= 3 THEN 1 + (IF h > 6 THEN 6 ELSE h) ELSE 0
         [] name = "WhiteSpace" -> RunIn(text, i, Space)
         [] name = "Comment" ->
              IF text[i] = "#" THEN 1 + RunNotIn(text, i + 1, {"\n"}) ELSE 0
         [] OTHER -> LitLen(text, i, LiteralPattern[name])

\* Mutant of LongerAlt: the shape keywords have no longer_alt.
LongerAlt_groupOnly(name) ==
  IF name \in {"Group", "Arrow"} THEN "Identifier" ELSE ""

\* longer_alt of a token type ("" when it has none).
LongerAlt(name) ==
  IF name \in {"Group", "Arrow", "ShapeRect", "ShapeBox", "ShapeRectangle",
               "ShapeCircle", "ShapeOval", "ShapeEllipse", "ShapeDiamond",
               "ShapeCylinder", "ShapeDatabase", "ShapeDb"}
  THEN "Identifier" ELSE ""

\* group: Lexer.SKIPPED
Skipped(name) == name \in {"WhiteSpace", "Comment"}

\* The token types in matching priority.
allTokens ==
  << "WhiteSpace", "Comment",
     "ArrowBiDirectional", "ArrowDottedRight", "ArrowThickRight",
     "ArrowLeft", "ArrowRight", "Line",
     "StringLiteral", "ColorLiteral", "NumberLiteral",
     "Style", "Layout",
     "Group", "Arrow", "ShapeRectangle", "ShapeRect", "ShapeBox",
     "ShapeEllipse", "ShapeCircle", "ShapeOval", "ShapeDiamond",
     "ShapeDatabase", "ShapeCylinder", "ShapeDb",
     "Identifier",
     "LCurly", "RCurly", "LParen", "RParen", "Colon", "Comma", "Dot" >>

KeywordTokens ==
  {"Group", "Arrow", "Layout", "ShapeRect", "ShapeBox", "ShapeRectangle",
   "ShapeCircle", "ShapeOval", "ShapeEllipse", "ShapeDiamond",
   "ShapeCylinder", "ShapeDatabase", "ShapeDb"}

NoMatch == [name |-> "", len |-> 0]

\* Index in allTokens of the first token type whose pattern matches at
\* offset i (0: none).
FirstMatch(text, i) ==
  Bind({j \in 1..Len(allTokens) : PatternLen(allTokens[j], text, i) > 0},
       LAMBDA matching :
         IF matching = {} THEN 0
         ELSE CHOOSE j \in matching : \A k \in matching : j <= k)

\* The token of type name and length len, replaced by its longer_alt when
\* that matches a longer text.
WithLongerAlt(name, len, alt, text, i) ==
  IF alt = "" THEN [name |-> name, len |-> len]
  ELSE Bind(PatternLen(alt, text, i), LAMBDA altLen :
         IF altLen > len THEN [name |-> alt, len |-> altLen]
         ELSE [name |-> name, len |-> len])

\* One step of the lexer at offset i: the first token type whose pattern
\* matches, replaced by its longer_alt when that matches a longer text.
MatchAt(text, i) ==
  Bind(FirstMatch(text, i), LAMBDA j :
    IF j = 0 THEN NoMatch
    ELSE WithLongerAlt(allTokens[j], PatternLen(allTokens[j], text, i),
                       LongerAlt(allTokens[j]), text, i))

\* Number of characters dropped at offset i, where no token matches: up to
\* the next offset where one does.
RECURSIVE DroppedRun(_, _)
DroppedRun(text, i) ==
  IF i + 1 > Len(text) THEN 1
  ELSE IF MatchAt(text, i + 1).len > 0 THEN 1
  ELSE 1 + DroppedRun(text, i + 1)

\* One iteration of the lexer's loop in the state st = [i, tokens, errors]:
\* the token at offset i, or the error for the characters dropped up to the
\* next offset where a token matches.
LexStep(text, st) ==
  Bind(MatchAt(text, st.i), LAMBDA m :
    IF m.len > 0
    THEN [i |-> st.i + m.len,
          tokens |-> IF Skipped(m.name) THEN st.tokens
                     ELSE Append(st.tokens,
                                 [tokenType |-> m.name,
                                  image |-> SubSeq(text, st.i, st.i + m.len - 1),
                                  startOffset |-> st.i]),
          errors |-> st.errors]
    ELSE Bind(DroppedRun(text, st.i), LAMBDA n :
           [i |-> st.i + n, tokens |-> st.tokens,
            errors |-> Append(st.errors, [offset |-> st.i, length |-> n])]))

\* The loop, run for at most fuel iterations.
RECURSIVE LexLoop(_, _, _)
LexLoop(text, st, fuel) ==
  IF st.i > Len(text) \/ fuel = 0 THEN st
  ELSE LexLoop(text, LexStep(text, st), fuel - 1)

\* The loop to the end of the text, taken sixteen iterations at a time.
RECURSIVE LexFrom(_, _)
LexFrom(text, st) ==
  IF st.i > Len(text) THEN st ELSE LexFrom(text, LexLoop(text, st, 16))

tokenize(text) ==
  LET st == LexFrom(text, [i |-> 1, tokens |-> <<>>, errors |-> <<>>])
  IN [tokens |-> st.tokens, errors |-> st.errors]

-----------------------------------------------------------------------------
(* Parser: class PintoParser (parser.ts).  Every decision of the grammar   *)
(* is taken on the next token: each OPTION, MANY and OR of the grammar      *)
(* starts with a token that nothing else can start with at that point.      *)
(* A rule returns [ok, pos, cst]: pos is the next token to read, or the     *)
(* offending token when ok is FALSE.  A CST node maps each child name of    *)
(* the rule to the sequence of its occurrences, as chevrotain's ctx does.   *)

TokType(toks, p) == IF p <= Len(toks) THEN toks[p].tokenType ELSE "EOF"

Fail(p) == [ok |-> FALSE, pos |-> p, cst |-> <<>>]
Ok(p, c) == [ok |-> TRUE, pos |-> p, cst |-> c]

ArrowTokens == {"ArrowBiDirectional", "ArrowDottedRight", "ArrowThickRight",
                "ArrowLeft", "ArrowRight", "Line"}
ShapeTokens == {"ShapeRect", "ShapeBox", "ShapeRectangle", "ShapeCircle",
                "ShapeOval", "ShapeEllipse", "ShapeDiamond", "ShapeCylinder",
                "ShapeDatabase", "ShapeDb"}
StatementStart == {"Group", "Layout", "Arrow", "Identifier"}

\* StyleProp := Identifier ':' (ColorLiteral | NumberLiteral | Identifier)
styleProp_rule(toks, p) ==
  IF TokType(toks, p) # "Identifier" THEN Fail(p)
  ELSE IF TokType(toks, p + 1) # "Colon" THEN Fail(p + 1)
  ELSE LET t == TokType(toks, p + 2)
       IN IF t \notin {"ColorLiteral", "NumberLiteral", "Identifier"}
          THEN Fail(p + 2)
          ELSE Ok(p + 3,
                  [Identifier |-> IF t = "Identifier"
                                  THEN <<toks[p], toks[p + 2]>> ELSE <<toks[p]>>,
                   ColorLiteral |-> IF t = "ColorLiteral" THEN <<toks[p + 2]>> ELSE <<>>,
                   NumberLiteral |-> IF t = "NumberLiteral" THEN <<toks[p + 2]>> ELSE <<>>])

RECURSIVE stylePropsMany(_, _, _)
stylePropsMany(toks, p, acc) ==
  IF TokType(toks, p) # "Comma" THEN Ok(p, [styleProp |-> acc])
  ELSE Bind(styleProp_rule(toks, p + 1), LAMBDA r :
         IF ~r.ok THEN r ELSE stylePropsMany(toks, r.pos, Append(acc, r.cst)))

\* StyleProps := StyleProp (',' StyleProp)*
styleProps_rule(toks, p) ==
  Bind(styleProp_rule(toks, p), LAMBDA r :
    IF ~r.ok THEN r ELSE stylePropsMany(toks, r.pos, <<r.cst>>))

\* '(' StyleProps ')' : the rules styleSpec and anchorSpec
parenStyleProps(toks, p) ==
  IF TokType(toks, p) # "LParen" THEN Fail(p)
  ELSE Bind(styleProps_rule(toks, p + 1), LAMBDA r :
         IF ~r.ok THEN r
         ELSE IF TokType(toks, r.pos) # "RParen" THEN Fail(r.pos)
         ELSE Ok(r.pos + 1, [styleProps |-> <<r.cst>>]))

styleSpec_rule(toks, p) == parenStyleProps(toks, p)
anchorSpec_rule(toks, p) == parenStyleProps(toks, p)

\* ShapeType := 'rect' | 'box' | ... | 'db'
shapeType_rule(toks, p) ==
  IF TokType(toks, p) \in ShapeTokens
  THEN Ok(p + 1, [token |-> toks[p]]) ELSE Fail(p)

\* ShapeSpec := '(' ShapeType (',' StyleProps)? ')'
shapeSpec_rule(toks, p) ==
  IF TokType(toks, p) # "LParen" THEN Fail(p)
  ELSE
  Bind(shapeType_rule(toks, p + 1), LAMBDA t :
    IF ~t.ok THEN t
    ELSE
    Bind(TokType(toks, t.pos) = "Comma", LAMBDA taken :
    Bind(IF taken THEN styleProps_rule(toks, t.pos + 1) ELSE Ok(t.pos, <<>>),
         LAMBDA s :
      IF ~s.ok THEN s
      ELSE IF TokType(toks, s.pos) # "RParen" THEN Fail(s.pos)
      ELSE Ok(s.pos + 1,
              [shapeType |-> <<t.cst>>,
               styleProps |-> IF taken THEN <<s.cst>> ELSE <<>>]))))

\* LabelSpec := ':' StringLiteral
labelSpec_rule(toks, p) ==
  IF TokType(toks, p) # "Colon" THEN Fail(p)
  ELSE IF TokType(toks, p + 1) # "StringLiteral" THEN Fail(p + 1)
  ELSE Ok(p + 2, [StringLiteral |-> <<toks[p + 1]>>])

\* ShapeSpec? at p
OptionalShapeSpec(toks, p) ==
  IF TokType(toks, p) = "LParen" THEN shapeSpec_rule(toks, p) ELSE Ok(p, <<>>)

\* AnchorSpec? at p
OptionalAnchorSpec(toks, p) ==
  IF TokType(toks, p) = "LParen" THEN anchorSpec_rule(toks, p) ELSE Ok(p, <<>>)

\* LabelSpec? at p
OptionalLabelSpec(toks, p) ==
  IF TokType(toks, p) = "Colon" THEN labelSpec_rule(toks, p) ELSE Ok(p, <<>>)

\* NodeRef := Identifier ('.' Identifier)? ShapeSpec? LabelSpec?
nodeRef_rule(toks, p) ==
  IF TokType(toks, p) # "Identifier" THEN Fail(p)
  ELSE
  Bind(TokType(toks, p + 1) = "Dot", LAMBDA dot :
    IF dot /\ TokType(toks, p + 2) # "Identifier" THEN Fail(p + 2)
    ELSE
    Bind(IF dot THEN p + 3 ELSE p + 1, LAMBDA p1 :
    Bind(OptionalShapeSpec(toks, p1), LAMBDA sh :
      IF ~sh.ok THEN sh
      ELSE
      Bind(OptionalLabelSpec(toks, sh.pos), LAMBDA lb :
        IF ~lb.ok THEN lb
        ELSE Ok(lb.pos,
                [nodeId |-> <<toks[p]>>,
                 subId |-> IF dot THEN <<toks[p + 2]>> ELSE <<>>,
                 shapeSpec |-> IF TokType(toks, p1) = "LParen"
                               THEN <<sh.cst>> ELSE <<>>,
                 labelSpec |-> IF TokType(toks, sh.pos) = "Colon"
                               THEN <<lb.cst>> ELSE <<>>])))))

\* Arrow := '<->' | '-->' | '==>' | '<-' | '->' | '--'
arrow_rule(toks, p) ==
  IF TokType(toks, p) \in ArrowTokens
  THEN Ok(p + 1, [token |-> toks[p]]) ELSE Fail(p)

\* (Arrow NodeRef AnchorSpec? LabelSpec?)*
RECURSIVE edgeOrNodeMany(_, _, _)
edgeOrNodeMany(toks, p, acc) ==
  IF TokType(toks, p) \notin ArrowTokens THEN Ok(p, acc)
  ELSE
  Bind(arrow_rule(toks, p), LAMBDA a :
  Bind(nodeRef_rule(toks, a.pos), LAMBDA n :
    IF ~n.ok THEN n
    ELSE
    Bind(OptionalAnchorSpec(toks, n.pos), LAMBDA an :
      IF ~an.ok THEN an
      ELSE
      Bind(OptionalLabelSpec(toks, an.pos), LAMBDA lb :
        IF ~lb.ok THEN lb
        ELSE edgeOrNodeMany(toks, lb.pos,
               [acc EXCEPT
                  !.arrow = Append(@, a.cst),
                  !.right = Append(@, n.cst),
                  !.anchorSpec = IF TokType(toks, n.pos) = "LParen"
                                 THEN Append(@, an.cst) ELSE @,
                  !.labelSpec = IF TokType(toks, an.pos) = "Colon"
                                THEN Append(@, lb.cst) ELSE @])))))

\* EdgeOrNode := NodeRef (Arrow NodeRef AnchorSpec? LabelSpec?)*
edgeOrNode_rule(toks, p) ==
  Bind(nodeRef_rule(toks, p), LAMBDA l :
    IF ~l.ok THEN l
    ELSE edgeOrNodeMany(toks, l.pos,
           [left |-> <<l.cst>>, arrow |-> <<>>, right |-> <<>>,
            anchorSpec |-> <<>>, labelSpec |-> <<>>]))

\* LayoutDef := '@layout' ':' Identifier
layoutDef_rule(toks, p) ==
  IF TokType(toks, p) # "Layout" THEN Fail(p)
  ELSE IF TokType(toks, p + 1) # "Colon" THEN Fail(p + 1)
  ELSE IF TokType(toks, p + 2) # "Identifier" THEN Fail(p + 2)
  ELSE Ok(p + 3, [Identifier |-> <<toks[p + 2]>>])

\* FreeArrowDef := 'arrow' '(' StyleProps ')'
freeArrowDef_rule(toks, p) ==
  IF TokType(toks, p) # "Arrow" THEN Fail(p)
  ELSE parenStyleProps(toks, p + 1)

NoStatement == [groupDef |-> <<>>, layoutDef |-> <<>>, freeArrowDef |-> <<>>,
                edgeOrNode |-> <<>>]

\* The CST of a statement whose alternative has the given name.
StatementOf(r, name) ==
  IF ~r.ok THEN r
  ELSE Ok(r.pos, [k \in DOMAIN NoStatement |->
                    IF k = name THEN <<r.cst>> ELSE <<>>])

RECURSIVE statement_rule(_, _)
RECURSIVE statementMany(_, _, _)
RECURSIVE groupDef_rule(_, _)

\* Statement := GroupDef | LayoutDef | FreeArrowDef | EdgeOrNode
statement_rule(toks, p) ==
  Bind(TokType(toks, p), LAMBDA t :
    CASE t = "Group" -> StatementOf(groupDef_rule(toks, p), "groupDef")
      [] t = "Layout" -> StatementOf(layoutDef_rule(toks, p), "layoutDef")
      [] t = "Arrow" -> StatementOf(freeArrowDef_rule(toks, p), "freeArrowDef")
      [] t = "Identifier" -> StatementOf(edgeOrNode_rule(toks, p), "edgeOrNode")
      [] OTHER -> Fail(p))

\* Statement*
statementMany(toks, p, acc) ==
  IF TokType(toks, p) \notin StatementStart THEN Ok(p, acc)
  ELSE Bind(statement_rule(toks, p), LAMBDA r :
         IF ~r.ok THEN r ELSE statementMany(toks, r.pos, Append(acc, r.cst)))

\* StyleSpec? at p
OptionalStyleSpec(toks, p) ==
  IF TokType(toks, p) = "LParen" THEN styleSpec_rule(toks, p) ELSE Ok(p, <<>>)

\* GroupDef := 'group' Identifier StyleSpec? '{' Statement* '}'
groupDef_rule(toks, p) ==
  IF TokType(toks, p) # "Group" THEN Fail(p)
  ELSE IF TokType(toks, p + 1) # "Identifier" THEN Fail(p + 1)
  ELSE
  Bind(OptionalStyleSpec(toks, p + 2), LAMBDA st :
    IF ~st.ok THEN st
    ELSE IF TokType(toks, st.pos) # "LCurly" THEN Fail(st.pos)
    ELSE
    Bind(statementMany(toks, st.pos + 1, <<>>), LAMBDA body :
      IF ~body.ok THEN body
      ELSE IF TokType(toks, body.pos) # "RCurly" THEN Fail(body.pos)
      ELSE Ok(body.pos + 1,
              [Identifier |-> <<toks[p + 1]>>,
               styleSpec |-> IF TokType(toks, p + 2) = "LParen"
                             THEN <<st.cst>> ELSE <<>>,
               statement |-> body.cst])))

\* Document := Statement*, invoked as the top rule: input left over after
\* it is an error (chevrotain's NotAllInputParsedException).
document_rule(toks) ==
  Bind(statementMany(toks, 1, <<>>), LAMBDA r :
    IF ~r.ok THEN r
    ELSE IF r.pos <= Len(toks) THEN Fail(r.pos)
    ELSE Ok(r.pos, [statement |-> r.cst]))

-----------------------------------------------------------------------------
(* AST values: ast.ts.  An optional field of the TypeScript code holds a   *)
(* tagged value: Undef (missing), Num(n), NaN, Str(chars).                   *)

Undef == [tag |-> "undefined", n |-> 0, s |-> <<>>]
NaN == [tag |-> "NaN", n |-> 0, s |-> <<>>]
Num(k) == [tag |-> "number", n |-> k, s |-> <<>>]
Str(chars) == [tag |-> "string", n |-> 0, s |-> chars]

\* JavaScript truthiness of a value: undefined, NaN, 0 and "" are falsy.
Truthy(v) ==
  CASE v.tag = "undefined" -> FALSE
    [] v.tag = "NaN" -> FALSE
    [] v.tag = "number" -> v.n # 0
    [] OTHER -> v.s # <<>>

\* a || b
OrElse(a, b) == IF Truthy(a) THEN a ELSE b

DigitValue(c) ==
  CASE c = "0" -> 0 [] c = "1" -> 1 [] c = "2" -> 2 [] c = "3" -> 3
    [] c = "4" -> 4 [] c = "5" -> 5 [] c = "6" -> 6 [] c = "7" -> 7
    [] c = "8" -> 8 [] c = "9" -> 9

RECURSIVE DecimalValue(_)
DecimalValue(chars) ==
  IF chars = <<>> THEN 0
  ELSE 10 * DecimalValue(SubSeq(chars, 1, Len(chars) - 1))
       + DigitValue(chars[Len(chars)])

\* Number(image) for the images a style value can have: an optionally signed
\* run of digits is that integer, any other identifier or color text is NaN.
ToNumber(chars) ==
  LET neg == chars # <<>> /\ chars[1] = "-"
      digits == IF neg THEN Tail(chars) ELSE chars
  IN IF digits # <<>> /\ \A k \in 1..Len(digits) : IsDigit(digits[k])
     THEN Num(IF neg THEN 0 - DecimalValue(digits) ELSE DecimalValue(digits))
     ELSE NaN

StyleKeys == {"fill", "stroke", "strokeWidth", "x", "y", "width", "height",
              "x1", "y1", "x2", "y2"}

StyleKeyChars ==
  [ fill |-> <<"f","i","l","l">>, stroke |-> <<"s","t","r","o","k","e">>,
    strokeWidth |-> <<"s","t","r","o","k","e","W","i","d","t","h">>,
    x |-> <<"x">>, y |-> <<"y">>, width |-> <<"w","i","d","t","h">>,
    height |-> <<"h","e","i","g","h","t">>,
    x1 |-> <<"x","1">>, y1 |-> <<"y","1">>, x2 |-> <<"x","2">>, y2 |-> <<"y","2">> ]

\* StyleProps: defined is FALSE for a missing style object; p gives each
\* field of the object, Undef when it is not set.
NoProps == [k \in StyleKeys |-> Undef]
NoStyle == [defined |-> FALSE, p |-> NoProps]
EmptyStyle == [defined |-> TRUE, p |-> NoProps]

\* { ...a, ...b }
Spread(a, b) ==
  [defined |-> TRUE,
   p |-> [k \in StyleKeys |-> IF b.p[k].tag # "undefined" THEN b.p[k] ELSE a.p[k]]]

NodeAST(id, label, shape, style) ==
  [type |-> "node", id |-> id, label |-> label, shape |-> shape, style |-> style]

EdgeAST(from, to, arrowType) ==
  [type |-> "edge", from |-> from, to |-> to, arrowType |-> arrowType,
   label |-> Undef, x1 |-> Undef, y1 |-> Undef, x2 |-> Undef, y2 |-> Undef]

-----------------------------------------------------------------------------
(* AST visitor: class PintoASTVisitor (parser.ts).  The visitor's state st  *)
(* is [nodes, heap]: nodes is the registry this.nodes, a sequence of        *)
(* [id, ref] in insertion order; heap holds the NodeAST objects, and ref is *)
(* an object's address in it.  A Node statement of a statement list is the  *)
(* reference [type |-> "node", ref |-> address].                            *)

labelSpec_visit(ctx) ==
  LET raw == ctx.StringLiteral[1].image
  IN SubSeq(raw, 2, Len(raw) - 1)

arrow_visit(ctx) ==
  LET t == ctx.token.tokenType
  IN CASE t = "ArrowBiDirectional" -> "both"
       [] t = "ArrowDottedRight" -> "dotted"
       [] t = "ArrowThickRight" -> "thick"
       [] t = "ArrowLeft" -> "left"
       [] t = "ArrowRight" -> "right"
       [] t = "Line" -> "line"
       [] OTHER -> "right"

shapeType_visit(ctx) ==
  LET t == ctx.token.tokenType
  IN CASE t \in {"ShapeRect", "ShapeBox", "ShapeRectangle"} -> "rect"
       [] t \in {"ShapeCircle", "ShapeOval", "ShapeEllipse"} -> "circle"
       [] t = "ShapeDiamond" -> "diamond"
       [] t \in {"ShapeCylinder", "ShapeDatabase", "ShapeDb"} -> "cylinder"
       [] OTHER -> "rect"

styleProp_visit(ctx) ==
  [key |-> ctx.Identifier[1].image,
   value |-> IF ctx.ColorLiteral # <<>> THEN ctx.ColorLiteral[1].image
             ELSE IF ctx.NumberLiteral # <<>> THEN ctx.NumberLiteral[1].image
             ELSE ctx.Identifier[2].image]

\* One iteration of the loop of styleProps: the assignment the key selects.
SetStyleProp(p, kv) ==
  [k \in StyleKeys |->
     IF kv.key # StyleKeyChars[k] THEN p[k]
     ELSE IF k \in {"fill", "stroke"} THEN Str(kv.value)
     ELSE ToNumber(kv.value)]

RECURSIVE stylePropsLoop(_, _, _)
stylePropsLoop(props, i, p) ==
  IF i > Len(props) THEN p
  ELSE stylePropsLoop(props, i + 1, SetStyleProp(p, styleProp_visit(props[i])))

styleProps_visit(ctx) ==
  [defined |-> TRUE, p |-> stylePropsLoop(ctx.styleProp, 1, NoProps)]

styleSpec_visit(ctx) == styleProps_visit(ctx.styleProps[1])
anchorSpec_visit(ctx) == styleProps_visit(ctx.styleProps[1])

shapeSpec_visit(ctx) ==
  [shape |-> shapeType_visit(ctx.shapeType[1]),
   style |-> IF ctx.styleProps # <<>> THEN styleProps_visit(ctx.styleProps[1])
             ELSE NoStyle]

nodeRef_visit(ctx) ==
  Bind(IF ctx.shapeSpec # <<>> THEN shapeSpec_visit(ctx.shapeSpec[1])
       ELSE [shape |-> "undefined", style |-> NoStyle],
       LAMBDA sh :
         NodeAST(IF ctx.subId # <<>>
                 THEN ctx.nodeId[1].image \o <<".">> \o ctx.subId[1].image
                 ELSE ctx.nodeId[1].image,
                 IF ctx.labelSpec # <<>>
                 THEN Str(labelSpec_visit(ctx.labelSpec[1])) ELSE Undef,
                 sh.shape, sh.style))

\* this.nodes.has(id) / the address this.nodes.get(id) refers to
NodesHas(st, id) == \E k \in 1..Len(st.nodes) : st.nodes[k].id = id
NodesGet(st, id) ==
  st.nodes[CHOOSE k \in 1..Len(st.nodes) : st.nodes[k].id = id].ref

\* Mutant of MergeInto: the style is replaced wholesale.
MergeInto_replaceStyle(existing, node) ==
  [existing EXCEPT
     !.label = IF Truthy(node.label) THEN node.label ELSE @,
     !.shape = IF node.shape # "undefined" THEN node.shape ELSE @,
     !.style = IF node.style.defined THEN node.style ELSE @]

\* The merge of a later occurrence into the registered node.
MergeInto(existing, node) ==
  [existing EXCEPT
     !.label = IF Truthy(node.label) THEN node.label ELSE @,
     !.shape = IF node.shape # "undefined" THEN node.shape ELSE @,
     !.style = IF node.style.defined THEN Spread(@, node.style) ELSE @]

\* "Ensure node exists": register the node object, or merge it into the
\* object registered under its id.
EnsureNode(st, node) ==
  IF ~NodesHas(st, node.id)
  THEN [nodes |-> Append(st.nodes, [id |-> node.id, ref |-> Len(st.heap) + 1]),
        heap |-> Append(st.heap, node)]
  ELSE LET r == NodesGet(st, node.id)
       IN [st EXCEPT !.heap[r] = MergeInto(@, node)]

\* The anchors and the label of an edge.
WithAnchors(edge, anchors) ==
  [edge EXCEPT !.x1 = anchors.p["x1"], !.y1 = anchors.p["y1"],
               !.x2 = anchors.p["x2"], !.y2 = anchors.p["y2"]]

\* The edge of iteration i of the chain (i counted from 1).
ChainEdge(ctx, i, prevNode, rightNode) ==
  Bind(WithAnchors(EdgeAST(prevNode.id, rightNode.id, arrow_visit(ctx.arrow[i])),
                   IF i <= Len(ctx.anchorSpec)
                   THEN anchorSpec_visit(ctx.anchorSpec[i]) ELSE NoStyle),
       LAMBDA edge :
         IF i <= Len(ctx.labelSpec)
         THEN [edge EXCEPT !.label = Str(labelSpec_visit(ctx.labelSpec[i]))]
         ELSE edge)

\* Mutant of edgeOrNodeLoop: prevNode stays the left node of the chain.
RECURSIVE edgeOrNodeLoop_prevNotAdvanced(_, _, _, _, _)
edgeOrNodeLoop_prevNotAdvanced(ctx, i, prevNode, results, st) ==
  IF i > Len(ctx.arrow) THEN [result |-> results, st |-> st]
  ELSE Bind(nodeRef_visit(ctx.right[i]), LAMBDA rightNode :
         edgeOrNodeLoop_prevNotAdvanced(ctx, i + 1, prevNode,
                        Append(results, ChainEdge(ctx, i, prevNode, rightNode)),
                        EnsureNode(st, rightNode)))

\* for (let i = 0; i < ctx.arrow.length; i++) { ... prevNode = rightNode }
RECURSIVE edgeOrNodeLoop(_, _, _, _, _)
edgeOrNodeLoop(ctx, i, prevNode, results, st) ==
  IF i > Len(ctx.arrow) THEN [result |-> results, st |-> st]
  ELSE Bind(nodeRef_visit(ctx.right[i]), LAMBDA rightNode :
         edgeOrNodeLoop(ctx, i + 1, rightNode,
                        Append(results, ChainEdge(ctx, i, prevNode, rightNode)),
                        EnsureNode(st, rightNode)))

edgeOrNode_visit(ctx, st) ==
  Bind(nodeRef_visit(ctx.left[1]), LAMBDA leftNode :
    edgeOrNodeLoop(ctx, 1, leftNode, <<>>, EnsureNode(st, leftNode)))

layoutDef_visit(ctx) ==
  [type |-> "layout", algorithm |-> ctx.Identifier[1].image]

freeArrowDef_visit(ctx) ==
  Bind(styleProps_visit(ctx.styleProps[1]).p, LAMBDA props :
    [type |-> "freeArrow",
     x1 |-> OrElse(props["x1"], Num(0)), y1 |-> OrElse(props["y1"], Num(0)),
     x2 |-> OrElse(props["x2"], Num(0)), y2 |-> OrElse(props["y2"], Num(0)),
     arrowType |-> "right"])

RECURSIVE statement_visit(_, _)
RECURSIVE collectStatements(_, _, _, _)
RECURSIVE groupDef_visit(_, _)

\* Returns [result, st]: result is the sequence of statements to push.
statement_visit(ctx, st) ==
  IF ctx.groupDef # <<>>
  THEN Bind(groupDef_visit(ctx.groupDef[1], st), LAMBDA g :
         [result |-> <<g.result>>, st |-> g.st])
  ELSE IF ctx.layoutDef # <<>>
  THEN [result |-> <<layoutDef_visit(ctx.layoutDef[1])>>, st |-> st]
  ELSE IF ctx.freeArrowDef # <<>>
  THEN [result |-> <<freeArrowDef_visit(ctx.freeArrowDef[1])>>, st |-> st]
  ELSE IF ctx.edgeOrNode # <<>>
  THEN edgeOrNode_visit(ctx.edgeOrNode[1], st)
  ELSE [result |-> <<>>, st |-> st]

\* for (const stmtCtx of ctx.statement) ... push
collectStatements(stmts, i, acc, st) ==
  IF i > Len(stmts) THEN [result |-> acc, st |-> st]
  ELSE Bind(statement_visit(stmts[i], st), LAMBDA r :
         collectStatements(stmts, i + 1, acc \o r.result, r.st))

\* Mutant of groupDef_visit: the nodes registered while the body is
\* visited are forgotten.
groupDef_visit_bodyNodesLost(ctx, st) ==
  Bind(collectStatements(ctx.statement, 1, <<>>, st), LAMBDA body :
    [result |-> [type |-> "group",
                 id |-> ctx.Identifier[1].image,
                 children |-> body.result,
                 style |-> IF ctx.styleSpec # <<>>
                           THEN styleSpec_visit(ctx.styleSpec[1]) ELSE NoStyle],
     st |-> st])

groupDef_visit(ctx, st) ==
  Bind(collectStatements(ctx.statement, 1, <<>>, st), LAMBDA body :
    [result |-> [type |-> "group",
                 id |-> ctx.Identifier[1].image,
                 children |-> body.result,
                 style |-> IF ctx.styleSpec # <<>>
                           THEN styleSpec_visit(ctx.styleSpec[1]) ELSE NoStyle],
     st |-> body.st])

\* Mutant of unshiftUndefined: the nodes are pushed at the end.
RECURSIVE unshiftUndefined_push(_, _, _, _)
unshiftUndefined_push(reg, i, definedNodeIds, statements) ==
  IF i > Len(reg) THEN statements
  ELSE unshiftUndefined_push(reg, i + 1, definedNodeIds,
         IF reg[i].id \in definedNodeIds THEN statements
         ELSE statements \o <<[type |-> "node", ref |-> reg[i].ref]>>)

\* for (const [id, node] of this.nodes) if (!definedNodeIds.has(id)) unshift
RECURSIVE unshiftUndefined(_, _, _, _)
unshiftUndefined(reg, i, definedNodeIds, statements) ==
  IF i > Len(reg) THEN statements
  ELSE unshiftUndefined(reg, i + 1, definedNodeIds,
         IF reg[i].id \in definedNodeIds THEN statements
         ELSE <<[type |-> "node", ref |-> reg[i].ref]>> \o statements)

\* The node ids of the Node statements of a list.
DefinedNodeIds(statements, heapNow) ==
  {heapNow[statements[k].ref].id :
     k \in {j \in 1..Len(statements) : statements[j].type = "node"}}

\* Mutant of ClearNodes: the registry is kept from call to call.
ClearNodes_kept(st) == st

\* this.nodes.clear()
ClearNodes(st) == [st EXCEPT !.nodes = <<>>]

\* document(ctx): returns [doc, st]
document_visit(ctx, st0) ==
  Bind(collectStatements(ctx.statement, 1, <<>>, ClearNodes(st0)), LAMBDA body :
    [doc |-> [statements |->
                unshiftUndefined(body.st.nodes, 1,
                                 DefinedNodeIds(body.result, body.st.heap),
                                 body.result),
              errors |-> <<>>],
     st |-> body.st])

-----------------------------------------------------------------------------
(* parse(input): parser.ts.  ps is the state shared by all calls:          *)
(* [parserInput, parserErrors, nodes, heap].                                *)

LexError(e) == [message |-> "lexing", location |-> e.offset]

\* The error of the first token the grammar rejects; later errors of the
\* same call (the parser recovers and goes on) are not modelled.
SyntaxError(toks, p) ==
  [message |-> "syntax",
   location |-> IF p <= Len(toks) THEN toks[p].startOffset ELSE 0]

\* parserInstance.input = tokens: the setter resets the parser, errors too.
SetParserInput(ps, toks) ==
  [ps EXCEPT !.parserInput = toks, !.parserErrors = <<>>]

\* parse, from the assignment of parserInstance.input on.  Returns [doc, ps].
parseTokens(toks, ps) ==
  Bind(SetParserInput(ps, toks), LAMBDA ps1 :
  Bind(document_rule(ps1.parserInput), LAMBDA r :
  Bind(IF r.ok THEN ps1
       ELSE [ps1 EXCEPT !.parserErrors =
                          <<SyntaxError(ps1.parserInput, r.pos)>>],
       LAMBDA ps2 :
    IF Len(ps2.parserErrors) > 0
    THEN [doc |-> [statements |-> <<>>, errors |-> ps2.parserErrors],
          ps |-> ps2]
    ELSE Bind(document_visit(r.cst, [nodes |-> ps2.nodes, heap |-> ps2.heap]),
              LAMBDA v :
                [doc |-> v.doc,
                 ps |-> [ps2 EXCEPT !.nodes = v.st.nodes,
                                    !.heap = v.st.heap]]))))

LexErrors(lexingResult) ==
  [k \in 1..Len(lexingResult.errors) |-> LexError(lexingResult.errors[k])]

\* Mutant of parse: lexical errors are reported but do not end the call.
parse_lexErrorsNotFatal(text, ps) ==
  Bind(tokenize(text), LAMBDA lexingResult :
  Bind(parseTokens(lexingResult.tokens, ps), LAMBDA r :
    [doc |-> [statements |-> r.doc.statements,
              errors |-> LexErrors(lexingResult) \o r.doc.errors],
     ps |-> r.ps]))

\* Returns [doc, ps].
parse(text, ps) ==
  Bind(tokenize(text), LAMBDA lexingResult :
    IF Len(lexingResult.errors) > 0
    THEN [doc |-> [statements |-> <<>>, errors |-> LexErrors(lexingResult)],
          ps |-> ps]
    ELSE parseTokens(lexingResult.tokens, ps))

\* A Document as its holder reads it: every Node statement replaced by the
\* object it refers to.
Deref(doc, heapNow) ==
  [statements |-> [k \in 1..Len(doc.statements) |->
                     IF doc.statements[k].type = "node"
                     THEN heapNow[doc.statements[k].ref]
                     ELSE doc.statements[k]],
   errors |-> doc.errors]

FreshState == [parserInput |-> <<>>, parserErrors |-> <<>>,
               nodes |-> <<>>, heap |-> <<>>]

\* What a first-ever call parse(text) returns.
FirstParse(text) ==
  Bind(parse(text, FreshState), LAMBDA r : Deref(r.doc, r.ps.heap))

-----------------------------------------------------------------------------
(* compile(ast, options): compiler.ts.  A Map is a sequence of [id, node]   *)
(* in insertion order.  Coordinates are integers; the coordinates of a      *)
(* connector point are counted in half units, so that x + width / 2 stays   *)
(* an integer.                                                              *)

SHAPE_DIMENSIONS ==
  [ rect     |-> [width |-> 120, height |-> 60],
    circle   |-> [width |-> 80, height |-> 80],
    diamond  |-> [width |-> 100, height |-> 100],
    cylinder |-> [width |-> 80, height |-> 100] ]

DEFAULT_SHAPE == "rect"

\* options = {} and the defaults of its destructuring
NoOptions == [algorithm |-> "undefined", direction |-> "undefined",
              nodeSpacing |-> Undef, edgeSpacing |-> Undef]

WithDefaults(options) ==
  [algorithm |-> IF options.algorithm = "undefined" THEN "layered"
                 ELSE options.algorithm,
   direction |-> IF options.direction = "undefined" THEN "DOWN"
                 ELSE options.direction,
   nodeSpacing |-> IF options.nodeSpacing.tag = "undefined" THEN Num(50)
                   ELSE options.nodeSpacing,
   edgeSpacing |-> IF options.edgeSpacing.tag = "undefined" THEN Num(20)
                   ELSE options.edgeSpacing]

NoDocument == [statements |-> <<>>, errors |-> <<>>]
NoGraph == [id |-> "none", layoutOptions |-> WithDefaults(NoOptions),
            children |-> <<>>, edges |-> <<>>]
NoLayout == [children |-> [defined |-> FALSE, list |-> <<>>],
             edges |-> [defined |-> FALSE, list |-> <<>>]]
NoFrame == [nodesMap |-> <<>>, edges |-> <<>>, groups |-> <<>>,
            elkGraph |-> NoGraph, layoutedGraph |-> NoLayout, elk |-> 0]

\* nodesMap.has(id), nodesMap.get(id), nodesMap.set(id, node)
MapHas(m, id) == \E k \in 1..Len(m) : m[k].id = id
MapGet(m, id) == m[CHOOSE k \in 1..Len(m) : m[k].id = id].node
MapSet(m, id, node) ==
  IF MapHas(m, id)
  THEN [k \in 1..Len(m) |-> IF m[k].id = id THEN [id |-> id, node |-> node]
                            ELSE m[k]]
  ELSE Append(m, [id |-> id, node |-> node])

\* { type: "node", id }
BareNode(id) == NodeAST(id, Undef, "undefined", NoStyle)

\* Mutant of ExtractLoop: the Edge statements of a group's children are
\* taken as edges too.
RECURSIVE ExtractLoop_groupEdges(_, _, _)
ExtractLoop_groupEdges(statements, i, acc) ==
  IF i > Len(statements) THEN acc
  ELSE
  LET stmt == statements[i]
  IN IF stmt.type = "node"
     THEN ExtractLoop_groupEdges(statements, i + 1,
            [acc EXCEPT !.nodesMap = MapSet(@, stmt.id, stmt)])
     ELSE IF stmt.type = "edge"
     THEN LET m1 == IF MapHas(acc.nodesMap, stmt.from) THEN acc.nodesMap
                    ELSE MapSet(acc.nodesMap, stmt.from, BareNode(stmt.from))
              m2 == IF MapHas(m1, stmt.to) THEN m1
                    ELSE MapSet(m1, stmt.to, BareNode(stmt.to))
          IN ExtractLoop_groupEdges(statements, i + 1,
               [acc EXCEPT !.nodesMap = m2, !.edges = Append(@, stmt)])
     ELSE IF stmt.type = "group"
     THEN ExtractLoop_groupEdges(statements, i + 1,
            [acc EXCEPT !.groups = Append(@, stmt),
                        !.edges = @ \o SelectSeq(stmt.children,
                                                 LAMBDA c : c.type = "edge")])
     ELSE ExtractLoop_groupEdges(statements, i + 1, acc)

\* The loop over ast.statements: nodesMap, edges and groups.
RECURSIVE ExtractLoop(_, _, _)
ExtractLoop(statements, i, acc) ==
  IF i > Len(statements) THEN acc
  ELSE
  LET stmt == statements[i]
  IN IF stmt.type = "node"
     THEN ExtractLoop(statements, i + 1,
            [acc EXCEPT !.nodesMap = MapSet(@, stmt.id, stmt)])
     ELSE IF stmt.type = "edge"
     THEN LET m1 == IF MapHas(acc.nodesMap, stmt.from) THEN acc.nodesMap
                    ELSE MapSet(acc.nodesMap, stmt.from, BareNode(stmt.from))
              m2 == IF MapHas(m1, stmt.to) THEN m1
                    ELSE MapSet(m1, stmt.to, BareNode(stmt.to))
          IN ExtractLoop(statements, i + 1,
               [acc EXCEPT !.nodesMap = m2, !.edges = Append(@, stmt)])
     ELSE IF stmt.type = "group"
     THEN ExtractLoop(statements, i + 1,
            [acc EXCEPT !.groups = Append(@, stmt)])
     ELSE ExtractLoop(statements, i + 1, acc)

\* node.style?.key
StyleGet(node, key) == IF node.style.defined THEN node.style.p[key] ELSE Undef

\* node.shape || DEFAULT_SHAPE
ShapeOrDefault(node) ==
  IF node.shape # "undefined" THEN node.shape ELSE DEFAULT_SHAPE

\* Mutant of allHavePositions: a position of 0 counts as missing.
allHavePositions_truthy(nodesMap) ==
  \A k \in 1..Len(nodesMap) :
     /\ Truthy(StyleGet(nodesMap[k].node, "x"))
     /\ Truthy(StyleGet(nodesMap[k].node, "y"))

allHavePositions(nodesMap) ==
  \A k \in 1..Len(nodesMap) :
     /\ StyleGet(nodesMap[k].node, "x").tag # "undefined"
     /\ StyleGet(nodesMap[k].node, "y").tag # "undefined"

\* generateId(): the n-th id it produces.  The ids of crypto.randomUUID are
\* taken to be pairwise distinct.
generateId(n) == n

\* Mutant of createNodeShape: a diamond gets the corner radius of a rect.
createNodeShape_diamondAsRect(uid, id, x, y, width, height, astNode) ==
  LET shapeType == ShapeOrDefault(astNode)
      baseProps ==
        [id |-> generateId(uid), x |-> x, y |-> y, rotation |-> 0,
         stroke |-> OrElse(StyleGet(astNode, "stroke"), Str(<<"#","0","0","0","0","0","0">>)),
         strokeWidth |-> OrElse(StyleGet(astNode, "strokeWidth"), Num(2)),
         fill |-> OrElse(StyleGet(astNode, "fill"), Str(<<"#","f","f","f","f","f","f">>)),
         opacity |-> 1, width |-> width, height |-> height, of |-> id]
  IN IF shapeType = "circle"
     THEN [type |-> "ellipse"] @@ baseProps
     ELSE [type |-> "rectangle",
           cornerRadius |-> IF shapeType = "cylinder" THEN 8 ELSE 4] @@ baseProps

\* createNodeShape(_id, x, y, width, height, astNode), with uid the number
\* of the id it generates.  The field of is _id, the node the shape is made
\* for; it is not a field of the TypeScript shape.
createNodeShape(uid, id, x, y, width, height, astNode) ==
  LET shapeType == ShapeOrDefault(astNode)
      baseProps ==
        [id |-> generateId(uid), x |-> x, y |-> y, rotation |-> 0,
         stroke |-> OrElse(StyleGet(astNode, "stroke"), Str(<<"#","0","0","0","0","0","0">>)),
         strokeWidth |-> OrElse(StyleGet(astNode, "strokeWidth"), Num(2)),
         fill |-> OrElse(StyleGet(astNode, "fill"), Str(<<"#","f","f","f","f","f","f">>)),
         opacity |-> 1, width |-> width, height |-> height, of |-> id]
  IN CASE shapeType = "circle" -> [type |-> "ellipse"] @@ baseProps
       [] shapeType = "diamond" ->
            [type |-> "rectangle", cornerRadius |-> 0] @@ baseProps
       [] shapeType = "cylinder" ->
            [type |-> "rectangle", cornerRadius |-> 8] @@ baseProps
       [] OTHER -> [type |-> "rectangle", cornerRadius |-> 4] @@ baseProps

\* A coordinate of a connector point, counted in half units.
Halves(k) == Num(k)

\* pos + size / 2
PlusHalf(pos, size) ==
  IF pos.tag = "number" /\ size.tag = "number"
  THEN Halves(2 * pos.n + size.n) ELSE NaN

Point(x, y) == [x |-> x, y |-> y]

\* Mutant of createArrowFromPoints: every arrow has an end arrow.
createArrowFromPoints_endAlways(uid, points, astEdge) ==
  LET baseProps ==
        [id |-> generateId(uid), x |-> Num(0), y |-> Num(0), rotation |-> 0,
         stroke |-> Str(<<"#","0","0","0","0","0","0">>), strokeWidth |-> Num(2),
         fill |-> Str(<<"t","r","a","n","s","p","a","r","e","n","t">>),
         opacity |-> 1, points |-> points]
      arrowType == astEdge.arrowType
  IN IF arrowType = "line" THEN [type |-> "line"] @@ baseProps
     ELSE [type |-> "arrow",
           startArrow |-> arrowType = "left" \/ arrowType = "both",
           endArrow |-> TRUE] @@ baseProps

createArrowFromPoints(uid, points, astEdge) ==
  LET baseProps ==
        [id |-> generateId(uid), x |-> Num(0), y |-> Num(0), rotation |-> 0,
         stroke |-> Str(<<"#","0","0","0","0","0","0">>), strokeWidth |-> Num(2),
         fill |-> Str(<<"t","r","a","n","s","p","a","r","e","n","t">>),
         opacity |-> 1, points |-> points]
      arrowType == astEdge.arrowType
  IN IF arrowType = "line" THEN [type |-> "line"] @@ baseProps
     ELSE [type |-> "arrow",
           startArrow |-> arrowType = "left" \/ arrowType = "both",
           endArrow |-> arrowType # "left"] @@ baseProps

\* node.style?.width || dims.width and node.style?.height || dims.height
WidthOrDefault(node) ==
  OrElse(StyleGet(node, "width"), Num(SHAPE_DIMENSIONS[ShapeOrDefault(node)].width))
HeightOrDefault(node) ==
  OrElse(StyleGet(node, "height"), Num(SHAPE_DIMENSIONS[ShapeOrDefault(node)].height))

\* The explicit-position branch: one shape per entry of nodesMap, then one
\* connector per edge.  uid0 ids have been generated before.
ExplicitNodeShapes(nodesMap, uid0) ==
  [k \in 1..Len(nodesMap) |->
     LET node == nodesMap[k].node
     IN createNodeShape(uid0 + k, nodesMap[k].id,
                        StyleGet(node, "x"), StyleGet(node, "y"),
                        WidthOrDefault(node), HeightOrDefault(node), node)]

ExplicitEdgeShape(uid, nodesMap, edge) ==
  LET fromNode == MapGet(nodesMap, edge.from)
      toNode == MapGet(nodesMap, edge.to)
      fromX == PlusHalf(StyleGet(fromNode, "x"), WidthOrDefault(fromNode))
      fromY == PlusHalf(StyleGet(fromNode, "y"), HeightOrDefault(fromNode))
      toX == PlusHalf(StyleGet(toNode, "x"), WidthOrDefault(toNode))
      toY == PlusHalf(StyleGet(toNode, "y"), HeightOrDefault(toNode))
  IN createArrowFromPoints(uid, <<Point(fromX, fromY), Point(toX, toY)>>, edge)

ExplicitShapes(nodesMap, edges, uid0) ==
  ExplicitNodeShapes(nodesMap, uid0)
  \o [i \in 1..Len(edges) |->
        ExplicitEdgeShape(uid0 + Len(nodesMap) + i, nodesMap, edges[i])]

\* The graph built for the layout engine.  The id of edge i (from 0) is
\* <<"e", i>>.
ElkLabels(label) == IF Truthy(label) THEN <<label.s>> ELSE <<>>

ElkGraph(nodesMap, edges, opts) ==
  [id |-> "root",
   layoutOptions |-> opts,
   children |-> [k \in 1..Len(nodesMap) |->
                   LET dims == SHAPE_DIMENSIONS[ShapeOrDefault(nodesMap[k].node)]
                   IN [id |-> nodesMap[k].id, width |-> dims.width,
                       height |-> dims.height,
                       labels |-> ElkLabels(nodesMap[k].node.label)]],
   edges |-> [i \in 1..Len(edges) |->
                [id |-> <<"e", i - 1>>, sources |-> <<edges[i].from>>,
                 targets |-> <<edges[i].to>>,
                 labels |-> ElkLabels(edges[i].label)]]]

\* The synchronous part of compile, up to the shapes of the explicit branch
\* or to the graph of the automatic branch.
CompileSync(document, options, uid0) ==
  LET ex == ExtractLoop(document.statements, 1,
                        [nodesMap |-> <<>>, edges |-> <<>>, groups |-> <<>>])
      explicit == allHavePositions(ex.nodesMap)
  IN [explicit |-> explicit,
      frame |-> [nodesMap |-> ex.nodesMap, edges |-> ex.edges,
                 groups |-> ex.groups,
                 elkGraph |-> IF explicit THEN NoGraph
                              ELSE ElkGraph(ex.nodesMap, ex.edges,
                                            WithDefaults(options)),
                 layoutedGraph |-> NoLayout, elk |-> 0],
      shapes |-> IF explicit THEN ExplicitShapes(ex.nodesMap, ex.edges, uid0)
                 ELSE <<>>]

\* What elk.layout may resolve to for a graph: the children placed on a
\* diagonal, returned without coordinates or missing; the edges missing, or in the submitted or the
\* reverse order, each routed through the centers of its ends or left
\* without sections.
Some(list) == [defined |-> TRUE, list |-> list]
None == [defined |-> FALSE, list |-> <<>>]

PlacedChildren(g) ==
  [k \in 1..Len(g.children) |->
     [x |-> Num(150 * (k - 1)), y |-> Num(100 * (k - 1))] @@ g.children[k]]

\* The children as submitted: x and y are absent.
UnplacedChildren(g) ==
  [k \in 1..Len(g.children) |->
     [x |-> Undef, y |-> Undef] @@ g.children[k]]

ChildCenter(g, id) ==
  LET k == CHOOSE j \in 1..Len(g.children) : g.children[j].id = id
      c == PlacedChildren(g)[k]
  IN [x |-> c.x.n + c.width \div 2, y |-> c.y.n + c.height \div 2]

RoutedEdge(g, e) ==
  LET from == ChildCenter(g, e.sources[1])
      to == ChildCenter(g, e.targets[1])
  IN [sections |-> << [startPoint |-> from,
                       bendPoints |-> << [x |-> from.x, y |-> to.y] >>,
                       endPoint |-> to] >>] @@ e

UnroutedEdge(e) == [sections |-> <<>>] @@ e

Reverse(list) == [k \in 1..Len(list) |-> list[Len(list) + 1 - k]]

LayoutResults(g) ==
  LET routed == [i \in 1..Len(g.edges) |-> RoutedEdge(g, g.edges[i])]
      unrouted == [i \in 1..Len(g.edges) |-> UnroutedEdge(g.edges[i])]
  IN { [children |-> ch, edges |-> ed] :
         ch \in {None, Some(PlacedChildren(g)), Some(UnplacedChildren(g))},
         ed \in {None, Some(routed), Some(unrouted),
                 Some(Reverse(routed)), Some(Reverse(unrouted))} }

\* elkNode.x || 0
NumOr(v, d) == OrElse(v, Num(d))

\* The shapes of the children of the layouted graph that nodesMap knows.
RECURSIVE LayoutedNodeShapes(_, _, _, _, _)
LayoutedNodeShapes(children, k, nodesMap, acc, uid0) ==
  IF k > Len(children) THEN acc
  ELSE
  LET elkNode == children[k]
  IN IF ~MapHas(nodesMap, elkNode.id)
     THEN LayoutedNodeShapes(children, k + 1, nodesMap, acc, uid0)
     ELSE LayoutedNodeShapes(children, k + 1, nodesMap,
            Append(acc,
              createNodeShape(uid0 + Len(acc) + 1, elkNode.id,
                              NumOr(elkNode.x, 0), NumOr(elkNode.y, 0),
                              NumOr(Num(elkNode.width), 120),
                              NumOr(Num(elkNode.height), 60),
                              MapGet(nodesMap, elkNode.id))),
            uid0)

\* graph.children?.find((n) => n.id === id): the sequence of the match, or
\* the empty sequence.
FindChild(graph, id) ==
  IF ~graph.children.defined THEN <<>>
  ELSE LET hits == {k \in 1..Len(graph.children.list) :
                      graph.children.list[k].id = id}
       IN IF hits = {} THEN <<>>
          ELSE << graph.children.list[CHOOSE k \in hits : \A j \in hits : k <= j] >>

RECURSIVE SectionPoints(_, _, _)
SectionPoints(sections, k, points) ==
  IF k > Len(sections) THEN points
  ELSE LET section == sections[k]
           twice(pt) == Point(Halves(2 * pt.x), Halves(2 * pt.y))
       IN SectionPoints(sections, k + 1,
            points \o << twice(section.startPoint) >>
                   \o [b \in 1..Len(section.bendPoints) |->
                         twice(section.bendPoints[b])]
                   \o << twice(section.endPoint) >>)

\* createEdgeShape(elkEdge, astEdge, graph): the sequence of the connector,
\* empty for null.
createEdgeShape(uid, elkEdge, astEdge, graph) ==
  IF elkEdge.sections = <<>>
  THEN LET sourceNode == FindChild(graph, astEdge.from)
           targetNode == FindChild(graph, astEdge.to)
       IN IF sourceNode = <<>> \/ targetNode = <<>> THEN <<>>
          ELSE
          LET s == sourceNode[1]
              t == targetNode[1]
              half(pos, size) == PlusHalf(NumOr(pos, 0), NumOr(Num(size), 0))
          IN << createArrowFromPoints(uid,
                  << Point(half(s.x, s.width), half(s.y, s.height)),
                     Point(half(t.x, t.width), half(t.y, t.height)) >>,
                  astEdge) >>
  ELSE << createArrowFromPoints(uid, SectionPoints(elkEdge.sections, 1, <<>>),
                                astEdge) >>

\* The loop over layoutedGraph.edges: the edge at position i is paired with
\* edges[i].
RECURSIVE LayoutedEdgeShapes(_, _, _, _, _)
LayoutedEdgeShapes(graph, i, edges, acc, uid0) ==
  IF i > Len(graph.edges.list) THEN acc
  ELSE LayoutedEdgeShapes(graph, i + 1, edges,
         acc \o createEdgeShape(uid0 + Len(acc) + 1, graph.edges.list[i],
                                edges[i], graph),
         uid0)

\* The part of compile that runs once elk.layout has resolved.
CompileResume(fr, layoutedGraph, uid0) ==
  LET nodeShapes ==
        IF layoutedGraph.children.defined
        THEN LayoutedNodeShapes(layoutedGraph.children.list, 1, fr.nodesMap,
                                <<>>, uid0)
        ELSE <<>>
  IN IF layoutedGraph.edges.defined
     THEN LayoutedEdgeShapes(layoutedGraph, 1, fr.edges, nodeShapes, uid0)
     ELSE nodeShapes

-----------------------------------------------------------------------------
(* Inputs: a text is a sequence of words of a vocabulary, joined either by  *)
(* one space or by nothing.                                                 *)

RECURSIVE Join(_, _)
Join(words, sep) ==
  IF words = <<>> THEN <<>>
  ELSE IF Len(words) = 1 THEN words[1]
  ELSE words[1] \o sep \o Join(Tail(words), sep)

WordSeqs(vocabulary, maxWords) ==
  UNION {[1..k -> vocabulary] : k \in 0..maxWords}

Texts(vocabulary, maxWords) ==
  {Join(ws, <<" ">>) : ws \in WordSeqs(vocabulary, maxWords)}

\* Longest text of the single-call specifications, in words.
MaxWords == 3

ParseWords ==
  { <<"a">>, <<"b">>, <<"c">>,
    <<"-",">"," ","b">>,
    <<":","\"","L","\"">>,
    <<"g","r","o","u","p"," ","g"," ","{">>, <<"}">>,
    <<"@","l","a","y","o","u","t",":"," ","f">>,
    <<"$">> }

ParseInputs == Texts(ParseWords, MaxWords)

-----------------------------------------------------------------------------
(* State machine *)

ParserState == [parserInput |-> parserInput, parserErrors |-> parserErrors,
                nodes |-> nodes, heap |-> heap]

\* One call parse(t) on the shared parser and visitor.
ParseCall(t) ==
  \E r \in {parse(t, ParserState)} :
     /\ input' = t
     /\ parserInput' = r.ps.parserInput
     /\ parserErrors' = r.ps.parserErrors
     /\ nodes' = r.ps.nodes
     /\ heap' = r.ps.heap
     /\ calls' = Append(calls, t)
     /\ returned' = Append(returned, r.doc)
     /\ UNCHANGED <<lexResult, compileVars, decompileVars, panelVars>>

\* The state after the modules are loaded; the text of the first call is
\* one of inputs.
InitPanel(inputs, canvases, stores) ==
  /\ input \in inputs
  /\ canvas \in canvases
  /\ store \in stores
  /\ errors = <<>>
  /\ isCompiling = FALSE
  /\ decompiled = <<>>
  /\ lexResult = [tokens |-> <<>>, errors |-> <<>>]
  /\ parserInput = <<>>
  /\ parserErrors = <<>>
  /\ nodes = <<>>
  /\ heap = <<>>
  /\ calls = <<>>
  /\ returned = <<>>
  /\ ast = NoDocument
  /\ compilePc = "idle"
  /\ frame = NoFrame
  /\ shapes = <<>>
  /\ elkInstance = 0
  /\ elkCreated = 0
  /\ layoutCalls = <<>>
  /\ uuids = 0
  /\ others = <<>>

\* const initialState of store.ts
initialState == [shapes |-> <<>>, selectedIds |-> <<>>,
                 camera |-> [x |-> 0, y |-> 0, zoom |-> 1]]

InitOf(inputs, canvases) == InitPanel(inputs, canvases, {initialState})

InitWith(inputs) == InitOf(inputs, {<<>>})

Init == InitWith(ParseInputs)

\* The first parse call of the program, on the input text.
ParseOnce == calls = <<>> /\ ParseCall(input)

Next == ParseOnce

Spec == Init /\ [][Next]_vars

-----------------------------------------------------------------------------
(* SpecReuse: sequences of parse calls on the shared parser and visitor. *)

\* Number of parse calls in a behaviour of SpecReuse.
MaxCalls == 3

Text_aRect     == <<"a","(","r","e","c","t",",","x",":","1",")">>
Text_aLabel    == <<"a",":","\"","L","\"">>
Text_aToB      == <<"a"," ","-",">"," ","b">>
Text_b         == <<"b","(","d","b",")">>
Text_lexError  == <<"a"," ","$">>
Text_synError  == <<"a"," ",")">>

ReuseInputs == {Text_aRect, Text_aLabel, Text_aToB, Text_b,
                Text_lexError, Text_synError}

ParseAgain == \E t \in ReuseInputs : Len(calls) < MaxCalls /\ ParseCall(t)

InitReuse == InitWith({<<>>})

SpecReuse == InitReuse /\ [][ParseAgain]_vars

-----------------------------------------------------------------------------
(* Reading a call's result *)

\* The CST of an accepted text.
CstOf(text) == document_rule(tokenize(text).tokens).cst

\* Whether the lexer or the parser reports an error for the text.
ReportsError(text) ==
  LET lx == tokenize(text)
  IN lx.errors # <<>> \/ ~document_rule(lx.tokens).ok

\* The Document of call k as its holder reads it now.
DocOf(k) == Deref(returned[k], heap)

\* The ids of the node references of a statement list of the CST, in
\* document order, groups included.
RECURSIVE RefsOfStatements(_)
RefsOfStatement(ctx) ==
  IF ctx.edgeOrNode # <<>>
  THEN LET e == ctx.edgeOrNode[1]
       IN <<nodeRef_visit(e.left[1])>>
          \o [k \in 1..Len(e.right) |-> nodeRef_visit(e.right[k])]
  ELSE IF ctx.groupDef # <<>>
  THEN RefsOfStatements(ctx.groupDef[1].statement)
  ELSE <<>>
RefsOfStatements(stmts) ==
  IF stmts = <<>> THEN <<>>
  ELSE RefsOfStatement(stmts[1]) \o RefsOfStatements(Tail(stmts))

\* The distinct ids of a sequence of node references, by first occurrence.
RECURSIVE FirstOccurrences(_, _)
FirstOccurrences(refs, seen) ==
  IF refs = <<>> THEN <<>>
  ELSE IF refs[1].id \in seen THEN FirstOccurrences(Tail(refs), seen)
  ELSE <<refs[1].id>> \o FirstOccurrences(Tail(refs), seen \cup {refs[1].id})

FirstRefOrder(text) == FirstOccurrences(RefsOfStatements(CstOf(text).statement), {})

-----------------------------------------------------------------------------
(* C1 *)

\* C1: the Document returned by parse never has both a non-empty errors list
\* and a non-empty statements list; whenever the lexer or the parser reports
\* an error for the text, statements is empty.
C1_ErrorsExcludeStatements ==
  \A k \in 1..Len(returned) :
     /\ ~(returned[k].errors # <<>> /\ returned[k].statements # <<>>)
     /\ ReportsError(calls[k]) =>
          returned[k].statements = <<>> /\ returned[k].errors # <<>>

\* A call whose text starts with a statement the grammar accepts and then
\* has a syntax error: the Document has the error and no statement.
C1_Witness ==
  \E k \in 1..Len(returned) :
     /\ returned[k].errors # <<>>
     /\ returned[k].errors[1].message = "syntax"
     /\ returned[k].errors[1].location > 1
     /\ returned[k].statements = <<>>

-----------------------------------------------------------------------------
(* C2 *)

\* C2: no parse state persists across calls: after any sequence of calls,
\* the Document returned by each call, as it reads now, is the Document a
\* first-ever call on the same text returns.
C2_NoStateAcrossCalls ==
  \A k \in 1..Len(returned) : DocOf(k) = FirstParse(calls[k])

\* Two error-free calls that refer to the same node id, the later one with
\* other properties for it.
C2_Witness ==
  /\ Len(returned) >= 2
  /\ calls[1] = Text_aRect
  /\ calls[2] = Text_aLabel
  /\ returned[1].errors = <<>>
  /\ returned[2].errors = <<>>

-----------------------------------------------------------------------------
(* C6 *)

IsNodeWithId(stmt, id) == stmt.type = "node" /\ stmt.id = id

\* C6: in the statement list of an error-free parse, the Node statements
\* come first, one per referenced id in reverse first-reference order, and
\* no Node statement follows; parse("a -> b") is [Node b, Node a, Edge a->b].
C6_NodesFirstReversed ==
  \A k \in 1..Len(returned) :
     returned[k].errors = <<>> =>
       LET d == DocOf(k).statements
           order == FirstRefOrder(calls[k])
           m == Len(order)
       IN /\ Len(d) >= m
          /\ \A j \in 1..m : IsNodeWithId(d[j], order[m + 1 - j])
          /\ \A j \in (m + 1)..Len(d) : d[j].type # "node"
          /\ calls[k] = Text_aToB =>
               d = << NodeAST(<<"b">>, Undef, "undefined", NoStyle),
                      NodeAST(<<"a">>, Undef, "undefined", NoStyle),
                      EdgeAST(<<"a">>, <<"b">>, "right") >>

\* parse("a -> b") has returned, with the node of b first.
C6_Witness ==
  \E k \in 1..Len(returned) :
     /\ calls[k] = Text_aToB
     /\ returned[k].errors = <<>>
     /\ DocOf(k).statements[1].id = <<"b">>

-----------------------------------------------------------------------------
(* SpecLex: one tokenize call on a keyword text followed by a tail. *)

\* Longest tail after the keyword, in characters.
MaxTail == 3

TailChars == {"x", "1", "_", " ", "("}

Tails == UNION {[1..k -> TailChars] : k \in 0..MaxTail}

KeywordTexts == {LiteralPattern[kw] : kw \in KeywordTokens}

LexInputs == {kw \o tail : kw \in KeywordTexts, tail \in Tails}

InitLex == InitWith(LexInputs)

\* The call tokenize(input).
TokenizeCall ==
  /\ calls = <<>>
  /\ lexResult' = tokenize(input)
  /\ calls' = <<input>>
  /\ UNCHANGED <<input, parserInput, parserErrors, nodes, heap, returned,
                 compileVars, decompileVars, panelVars>>

SpecLex == InitLex /\ [][TokenizeCall]_vars

\* The keyword kw is written at offset i and an identifier character follows.
KeywordThenIdChar(text, i, kw) ==
  LET n == LitLen(text, i, LiteralPattern[kw])
  IN n > 0 /\ i + n <= Len(text) /\ IsIdChar(text[i + n])

\* The token tk is one Identifier that spans the whole run of identifier
\* characters written from offset i on.
IdentifierOverRun(text, tk, i, kw) ==
  /\ tk.tokenType = "Identifier"
  /\ tk.startOffset = i
  /\ Len(tk.image) = Len(LiteralPattern[kw])
                     + RunIn(text, i + Len(LiteralPattern[kw]), IdChars)

\* C3 as stated: for every keyword, @layout included, a keyword text that
\* is immediately followed by identifier characters is tokenized as one
\* Identifier that spans the whole run.
C3_AsStated ==
  \A k \in 1..Len(lexResult.tokens) : \A kw \in KeywordTokens :
     LET tk == lexResult.tokens[k]
     IN KeywordThenIdChar(input, tk.startOffset, kw) =>
          IdentifierOverRun(input, tk, tk.startOffset, kw)

\* The run of identifier characters that starts with the keyword kw at i.
IdRun(text, i, kw) ==
  SubSeq(text, i, i + Len(LiteralPattern[kw])
                    + RunIn(text, i + Len(LiteralPattern[kw]), IdChars) - 1)

\* C3, amended: the same for every keyword but @layout, unless the whole run
\* is itself a keyword (rect followed by angle is the keyword rectangle);
\* @layout followed by identifier characters is tokenized as the Layout
\* keyword, and the characters after it are tokenized on their own.
C3_KeywordBoundary ==
  \A k \in 1..Len(lexResult.tokens) : \A kw \in KeywordTokens :
     LET tk == lexResult.tokens[k]
     IN KeywordThenIdChar(input, tk.startOffset, kw) =>
          IF kw = "Layout"
          THEN /\ tk.tokenType = "Layout"
               /\ tk.image = Chars_layout
               /\ k < Len(lexResult.tokens)
               /\ lexResult.tokens[k + 1].startOffset
                    = tk.startOffset + Len(Chars_layout)
          ELSE IF IdRun(input, tk.startOffset, kw) \in KeywordTexts
          THEN /\ tk.tokenType \in KeywordTokens
               /\ tk.image = IdRun(input, tk.startOffset, kw)
          ELSE IdentifierOverRun(input, tk, tk.startOffset, kw)

\* "rect1..." has been tokenized: a shape keyword that is the prefix of a
\* longer word.
C3_Witness ==
  /\ calls # <<>>
  /\ Len(input) >= 5
  /\ KeywordThenIdChar(input, 1, "ShapeRect")
  /\ input[5] = "1"
  /\ lexResult.tokens[1].tokenType = "Identifier"

-----------------------------------------------------------------------------
(* SpecMerge: one parse call on a text that refers to node a several times. *)

Word_a        == <<"a">>
Word_aL       == <<"a",":","\"","L","\"">>
Word_aM       == <<"a",":","\"","M","\"">>
Word_aEmpty   == <<"a",":","\"","\"">>
Word_aRectX   == <<"a","(","r","e","c","t",",","x",":","1",")">>
Word_aDbXY    == <<"a","(","d","b",",","x",":","2",",","y",":","3",")">>
Word_toAFill  == <<"-",">"," ","a","(","r","e","c","t",",","f","i","l","l",":","r","e","d",")">>
Word_aColor   == <<"a","(","r","e","c","t",",","f","i","l","l",":","#","f","0","0",")">>

MergeWords == {Word_a, Word_aL, Word_aM, Word_aEmpty, Word_aRectX,
               Word_aDbXY, Word_toAFill, Word_aColor}

MergeInputs == Texts(MergeWords, MaxWords)

InitMerge == InitWith(MergeInputs)

SpecMerge == InitMerge /\ [][ParseOnce]_vars

\* The last element of a non-empty set of indexes.
Last(S) == CHOOSE k \in S : \A j \in S : j <= k

\* The node that the merge rule gives for the occurrences occ of one id.
LabelByRule(occ) ==
  LET later == {k \in 2..Len(occ) : Truthy(occ[k].label)}
  IN IF later = {} THEN occ[1].label ELSE occ[Last(later)].label
ShapeByRule(occ) ==
  LET with == {k \in 1..Len(occ) : occ[k].shape # "undefined"}
  IN IF with = {} THEN "undefined" ELSE occ[Last(with)].shape
StyleByRule(occ, key) ==
  LET with == {k \in 1..Len(occ) :
                 occ[k].style.defined /\ occ[k].style.p[key].tag # "undefined"}
  IN IF with = {} THEN Undef ELSE occ[Last(with)].style.p[key]

\* C5: node merge rule: the record of an id has the label of the last
\* occurrence that supplies one (else that of the first occurrence), the
\* shape of the last occurrence that supplies one, and for each style key
\* the value of the last occurrence that sets the key; the statement list
\* has one Node per id.
C5_MergeRule ==
  \A k \in 1..Len(returned) :
     returned[k].errors = <<>> =>
       LET d == DocOf(k).statements
           refs == RefsOfStatements(CstOf(calls[k]).statement)
       IN \A r \in 1..Len(refs) :
            LET id == refs[r].id
                SameId(n) == n.id = id
                occ == SelectSeq(refs, SameId)
                at == {j \in 1..Len(d) : IsNodeWithId(d[j], id)}
            IN /\ Cardinality(at) = 1
               /\ \A j \in at :
                    /\ d[j].label = LabelByRule(occ)
                    /\ d[j].shape = ShapeByRule(occ)
                    /\ \A key \in StyleKeys : d[j].style.p[key] = StyleByRule(occ, key)

\* Node a is referred to three times, with x set first, then x and y, then
\* fill: the merged node has all three keys.
C5_Witness ==
  \E k \in 1..Len(returned) :
     /\ returned[k].errors = <<>>
     /\ Len(returned[k].statements) >= 1
     /\ \E j \in 1..Len(DocOf(k).statements) :
          LET n == DocOf(k).statements[j]
          IN /\ IsNodeWithId(n, <<"a">>)
             /\ n.style.p["x"] = Num(1)
             /\ n.style.p["y"] = Num(3)
             /\ n.shape = "rect"
             /\ n.label = Str(<<"L">>)

\* Offsets of the text where a style value is written as a color literal.
ColorValueOffsets(text) ==
  {i \in 2..Len(text) :
     text[i - 1] = ":" /\ PatternLen("ColorLiteral", text, i) > 0}

\* C4: a style property whose value is a color literal is tokenized as a
\* ColorLiteral token, and parse returns no errors and a node whose style
\* has the literal text as the value of the property.
C4_ColorLiteralStyle ==
  \A k \in 1..Len(returned) :
     /\ \A i \in ColorValueOffsets(calls[k]) :
          \E j \in 1..Len(tokenize(calls[k]).tokens) :
             LET tk == tokenize(calls[k]).tokens[j]
             IN tk.tokenType = "ColorLiteral" /\ tk.startOffset = i
     /\ calls[k] = Word_aColor =>
          /\ returned[k].errors = <<>>
          /\ \E j \in 1..Len(DocOf(k).statements) :
               /\ IsNodeWithId(DocOf(k).statements[j], <<"a">>)
               /\ DocOf(k).statements[j].style.p["fill"] = Str(<<"#","f","0","0">>)

-----------------------------------------------------------------------------
(* SpecCompile: one parse call, then one compile call on the document it   *)
(* returned or on a document a caller derives from it.  The dynamic import  *)
(* of the layout engine is taken to succeed.                                *)

\* Longest text of SpecCompile, in words.
MaxCompileWords == 2

Word_aRect00   == <<"a","(","r","e","c","t",",","x",":","0",",","y",":","0",")">>
Word_aCircleW0 == <<"a","(","c","i","r","c","l","e",",","x",":","3",",","y",":","4",
                    ",","w","i","d","t","h",":","0",")">>
Word_aDiamond  == <<"a","(","d","i","a","m","o","n","d",",","x",":","2",",","y",":","5",")">>
Word_c         == <<"c">>
Word_toBDb     == <<"-",">"," ","b","(","d","b",",","x",":","1","0",",","y",":","0",
                    ",","w","i","d","t","h",":","5",",","h","e","i","g","h","t",":","7",")">>
Word_lineB     == <<"-","-"," ","b">>
Word_fromBAnchored ==
  <<"<","-"," ","b","(","r","e","c","t",",","x",":","8",",","y",":","2",")",
    "(","x","1",":","1",",","y","1",":","2",",","x","2",":","3",",","y","2",":","4",")">>
Word_toCOvalX  == <<"-",">"," ","c","(","o","v","a","l",",","x",":","6",")">>

CompileWords == {Word_aRect00, Word_aCircleW0, Word_aDiamond, Word_c,
                 Word_toBDb, Word_lineB, Word_fromBAnchored, Word_toCOvalX}

CompileInputs == Texts(CompileWords, MaxCompileWords)

\* The Edge statements of a statement list, in order.
RECURSIVE EdgesOf(_)
EdgesOf(statements) ==
  IF statements = <<>> THEN <<>>
  ELSE (IF Head(statements).type = "edge" THEN <<Head(statements)>> ELSE <<>>)
       \o EdgesOf(Tail(statements))

\* The document without its Node statements: what a caller that builds
\* only Edge statements hands to compile.
EdgesOnly(document) == [document EXCEPT !.statements = EdgesOf(@)]

\* The document with the optional shape of every Node statement left out.
WithoutShapes(document) ==
  [document EXCEPT !.statements =
     [k \in 1..Len(@) |-> IF @[k].type = "node"
                          THEN [@[k] EXCEPT !.shape = "undefined"] ELSE @[k]]]

CompileArgs(document) ==
  {document, EdgesOnly(document), WithoutShapes(document)}

InitCompile == InitWith(CompileInputs)

\* Mutant of FreshShapes: one list at module level serves every call.
FreshShapes_moduleLevel(previous) == previous

\* const shapes: Shape[] = [] : the list of a call that starts, whatever
\* the list of the call before it holds.
FreshShapes(previous) == <<>>

\* compile(a): the call runs to its return in the explicit-position branch,
\* and to await getELK() in the other, where getELK awaits the import unless
\* elkInstance is set, and then returns it.
CompileBegin ==
  /\ compilePc = "idle"
  /\ calls # <<>>
  /\ \E a \in CompileArgs(DocOf(1)) :
       \E r \in {CompileSync(a, NoOptions, uuids)} :
          /\ ast' = a
          /\ frame' = [r.frame EXCEPT !.elk = elkInstance]
          /\ shapes' = shapes \o r.shapes
          /\ uuids' = uuids + Len(r.shapes)
          /\ compilePc' = IF r.explicit THEN "returned"
                          ELSE IF elkInstance = 0 THEN "awaitImport"
                          ELSE "awaitGetELK"
  /\ UNCHANGED <<parseVars, decompileVars, panelVars, elkInstance, elkCreated, layoutCalls, others>>

\* The import resolves: getELK constructs the engine and returns it.
ImportDone ==
  /\ compilePc = "awaitImport"
  /\ elkCreated' = elkCreated + 1
  /\ elkInstance' = elkCreated + 1
  /\ frame' = [frame EXCEPT !.elk = elkCreated + 1]
  /\ compilePc' = "awaitGetELK"
  /\ UNCHANGED <<parseVars, decompileVars, panelVars, ast, shapes, layoutCalls, uuids, others>>

\* compile resumes with the engine and calls elk.layout(elkGraph).
LayoutCall ==
  /\ compilePc = "awaitGetELK"
  /\ layoutCalls' = Append(layoutCalls,
                           [elk |-> frame.elk, graph |-> frame.elkGraph])
  /\ compilePc' = "awaitLayout"
  /\ UNCHANGED <<parseVars, decompileVars, panelVars, ast, frame, shapes, elkInstance, elkCreated, uuids,
                 others>>

\* elk.layout resolves and compile runs to its return.
LayoutResolve ==
  /\ compilePc = "awaitLayout"
  /\ \E lg \in LayoutResults(frame.elkGraph) :
       \E out \in {CompileResume(frame, lg, uuids)} :
          /\ frame' = [frame EXCEPT !.layoutedGraph = lg]
          /\ shapes' = shapes \o out
          /\ uuids' = uuids + Len(out)
  /\ compilePc' = "returned"
  /\ UNCHANGED <<parseVars, decompileVars, panelVars, ast, elkInstance, elkCreated, layoutCalls, others>>

\* elk.layout rejects: the await throws and compile rejects.
LayoutReject ==
  /\ compilePc = "awaitLayout"
  /\ compilePc' = "rejected"
  /\ UNCHANGED <<parseVars, decompileVars, panelVars, ast, frame, shapes, elkInstance, elkCreated,
                 layoutCalls, uuids, others>>

NextCompile ==
  \/ ParseOnce
  \/ CompileBegin
  \/ ImportDone
  \/ LayoutCall
  \/ LayoutResolve
  \/ LayoutReject

SpecCompile == InitCompile /\ [][NextCompile]_vars

-----------------------------------------------------------------------------
(* Reading a compile call *)

\* The node a document gives for an id: its last Node statement with that
\* id, or a node with nothing but the id when an Edge alone names it.
NodeOfDocument(document, id) ==
  LET at == {k \in 1..Len(document.statements) :
               /\ document.statements[k].type = "node"
               /\ document.statements[k].id = id}
  IN IF at = {} THEN BareNode(id)
     ELSE document.statements[CHOOSE k \in at : \A j \in at : j <= k]

\* The ids of the document's node map: the top-level Node statements and
\* the endpoints of the top-level Edges.
NodeIdsOfDocument(document) ==
  UNION { IF document.statements[k].type = "node"
          THEN {document.statements[k].id}
          ELSE IF document.statements[k].type = "edge"
          THEN {document.statements[k].from, document.statements[k].to}
          ELSE {} : k \in 1..Len(document.statements) }

HasPosition(node) ==
  /\ node.style.defined
  /\ node.style.p["x"].tag # "undefined"
  /\ node.style.p["y"].tag # "undefined"

EveryNodePositioned(document) ==
  \A id \in NodeIdsOfDocument(document) :
     HasPosition(NodeOfDocument(document, id))

IsNodeShape(s) == s.type \in {"rectangle", "ellipse"}
IsConnector(s) == s.type \in {"arrow", "line"}

NodeShapes == SelectSeq(shapes, IsNodeShape)
Connectors == SelectSeq(shapes, IsConnector)

\* (x + width / 2, y + height / 2) of an emitted node shape
ShapeCenter(s) == Point(PlusHalf(s.x, s.width), PlusHalf(s.y, s.height))

\* The call has returned from the explicit-position branch.
ReturnedExplicit == compilePc = "returned" /\ layoutCalls = <<>>

\* C7: compile takes the explicit-position branch exactly when every node
\* of the document's node map has style.x and style.y defined, 0 included.
\* In that branch the layout engine is neither constructed nor called at any
\* point of the call; in the other branch elk.layout has been called exactly
\* once when the call ends, and never more than once before.
C7_ExplicitIffAllPositioned ==
  compilePc # "idle" =>
    IF EveryNodePositioned(ast)
    THEN /\ compilePc = "returned"
         /\ layoutCalls = <<>>
         /\ elkInstance = 0
         /\ elkCreated = 0
    ELSE /\ compilePc \in {"awaitImport", "awaitGetELK", "awaitLayout",
                           "returned", "rejected"}
         /\ Len(layoutCalls) =
              (IF compilePc \in {"awaitLayout", "returned", "rejected"}
               THEN 1 ELSE 0)
         /\ \A k \in 1..Len(layoutCalls) :
               layoutCalls[k].graph = frame.elkGraph

\* An explicit-position call on a document with an edge and a node at x = 0
\* has returned without the layout engine.
C7_Witness ==
  /\ ReturnedExplicit
  /\ elkCreated = 0
  /\ frame.edges # <<>>
  /\ \E k \in 1..Len(frame.nodesMap) :
        StyleGet(frame.nodesMap[k].node, "x") = Num(0)

\* The size the claim gives a node: its literal style value or, when that
\* is absent, the default of its shape.
LiteralOrDefault(node, key) ==
  IF StyleGet(node, key).tag # "undefined" THEN StyleGet(node, key)
  ELSE Num(SHAPE_DIMENSIONS[IF node.shape = "undefined" THEN "rect"
                            ELSE node.shape][key])

CenterByClaim(node) ==
  Point(PlusHalf(StyleGet(node, "x"), LiteralOrDefault(node, "width")),
        PlusHalf(StyleGet(node, "y"), LiteralOrDefault(node, "height")))

HasNoAnchors(edge) ==
  \A v \in {edge.x1, edge.y1, edge.x2, edge.y2} : v.tag = "undefined"

HasAnchors(edge) ==
  \A v \in {edge.x1, edge.y1, edge.x2, edge.y2} : v.tag = "number"

\* The node shape emitted for an id.
NodeShapeOf(id) ==
  NodeShapes[CHOOSE k \in 1..Len(NodeShapes) : NodeShapes[k].of = id]

\* C8: in explicit-position mode the connector of every edge without anchors
\* has exactly two points, the centers (x + width/2, y + height/2) of its
\* source and target, with the literal width and height of the node or, when
\* absent, the defaults of its shape; they are the centers of the node shapes
\* emitted for these nodes.
C8_ConnectorJoinsCenters ==
  (ReturnedExplicit /\ EveryNodePositioned(ast)) =>
     LET edges == EdgesOf(ast.statements)
     IN /\ Len(Connectors) = Len(edges)
        /\ \A i \in 1..Len(edges) :
              HasNoAnchors(edges[i]) =>
                 LET from == NodeOfDocument(ast, edges[i].from)
                     to == NodeOfDocument(ast, edges[i].to)
                 IN /\ Connectors[i].points =
                         <<CenterByClaim(from), CenterByClaim(to)>>
                    /\ Connectors[i].points =
                         <<ShapeCenter(NodeShapeOf(edges[i].from)),
                           ShapeCenter(NodeShapeOf(edges[i].to))>>

\* C9: in explicit-position mode the connector of an edge that carries the
\* anchors x1, y1, x2, y2 has the two points (x1, y1) and (x2, y2).
C9_AnchorsOverrideCenters ==
  (ReturnedExplicit /\ EveryNodePositioned(ast)) =>
     LET edges == EdgesOf(ast.statements)
     IN /\ Len(Connectors) = Len(edges)
        /\ \A i \in 1..Len(edges) :
              HasAnchors(edges[i]) =>
                 Connectors[i].points =
                   << Point(Halves(2 * edges[i].x1.n), Halves(2 * edges[i].y1.n)),
                      Point(Halves(2 * edges[i].x2.n), Halves(2 * edges[i].y2.n)) >>

\* The call has returned with one node shape per node of the document.
AllNodesEmitted ==
  /\ compilePc = "returned"
  /\ (layoutCalls = <<>> \/ frame.layoutedGraph.children.defined)

\* C10: in both modes a returned call has, for every node the layout placed
\* (every node, in explicit-position mode), exactly one node shape, and that
\* shape is a rectangle with cornerRadius 4 for shape rect or no shape, an
\* ellipse for circle, a rectangle with cornerRadius 0 for diamond and a
\* rectangle with cornerRadius 8 for cylinder.
C10_ShapeMapping ==
  /\ \A k \in 1..Len(NodeShapes) :
        LET s == NodeShapes[k]
            shape == NodeOfDocument(ast, s.of).shape
        IN /\ s.of \in NodeIdsOfDocument(ast)
           /\ shape \in {"rect", "undefined"} =>
                 s.type = "rectangle" /\ s.cornerRadius = 4
           /\ shape = "circle" => s.type = "ellipse"
           /\ shape = "diamond" => s.type = "rectangle" /\ s.cornerRadius = 0
           /\ shape = "cylinder" => s.type = "rectangle" /\ s.cornerRadius = 8
  /\ AllNodesEmitted =>
        \A id \in NodeIdsOfDocument(ast) :
           Cardinality({k \in 1..Len(NodeShapes) : NodeShapes[k].of = id}) = 1

\* An automatic-layout call has returned a rectangle with cornerRadius 0 for
\* a diamond node, next to the shape of a node without a shape.
C10_Witness ==
  /\ compilePc = "returned"
  /\ layoutCalls # <<>>
  /\ \E k \in 1..Len(NodeShapes) :
        /\ NodeOfDocument(ast, NodeShapes[k].of).shape = "diamond"
        /\ NodeShapes[k].type = "rectangle"
        /\ NodeShapes[k].cornerRadius = 0
  /\ \E k \in 1..Len(NodeShapes) :
        /\ NodeOfDocument(ast, NodeShapes[k].of).shape = "undefined"
        /\ NodeShapes[k].cornerRadius = 4


-----------------------------------------------------------------------------
(* SpecArrows: a compile call on a node a, with or without a position,      *)
(* followed by a chain of arrows of every kind to a positioned node b.      *)

\* Longest chain of SpecArrows, in arrows.
MaxArrows == 2

Word_bRect82 == <<"b","(","r","e","c","t",",","x",":","8",",","y",":","2",")">>

ArrowSymbols == { <<"-",">">>, <<"<","-">>, <<"<","-",">">>, <<"-","-",">">>,
                  <<"=","=",">">>, <<"-","-">> }

ArrowWords == {sym \o <<" ">> \o Word_bRect82 : sym \in ArrowSymbols}

ArrowInputs ==
  {Join(<<h>> \o w, <<" ">>) :
     h \in {Word_a, Word_aRect00}, w \in WordSeqs(ArrowWords, MaxArrows)}

InitArrows == InitWith(ArrowInputs)

SpecArrows == InitArrows /\ [][NextCompile]_vars

\* The connector the claim gives an edge: a line for arrowType line, else
\* an arrow with its two flags.
MapsArrowType(edge, s) ==
  IF edge.arrowType = "line" THEN s.type = "line"
  ELSE /\ s.type = "arrow"
       /\ s.startArrow = (edge.arrowType \in {"left", "both"})
       /\ s.endArrow = (edge.arrowType # "left")

\* The layout gave no edge a connector can be made of: no edge list, or
\* edges without sections in a graph without children.
NoEdgeLaidOut ==
  /\ layoutCalls # <<>>
  /\ \/ ~frame.layoutedGraph.edges.defined
     \/ /\ ~frame.layoutedGraph.children.defined
        /\ \A i \in 1..Len(frame.layoutedGraph.edges.list) :
              frame.layoutedGraph.edges.list[i].sections = <<>>

\* C11: when compile has returned, in either mode, the i-th connector is
\* made for the i-th top-level edge: a line for arrowType line, else an
\* arrow with startArrow exactly for left and both and endArrow exactly for
\* every type but left.  Every edge has its connector, unless the layout
\* gave no edge a connector can be made of.
C11_ArrowMapping ==
  compilePc = "returned" =>
    LET edges == EdgesOf(ast.statements)
    IN /\ IF NoEdgeLaidOut THEN Connectors = <<>>
          ELSE Len(Connectors) = Len(edges)
       /\ \A i \in 1..Len(Connectors) : MapsArrowType(edges[i], Connectors[i])

\* Connectors of a call of the given mode cover left, both, dotted and line.
ArrowKindsCompiled(explicit) ==
  /\ compilePc = "returned"
  /\ (layoutCalls = <<>>) = explicit
  /\ Len(Connectors) = 2
  /\ \E i, j \in 1..2 :
        /\ EdgesOf(ast.statements)[i].arrowType \in {"left", "dotted"}
        /\ EdgesOf(ast.statements)[j].arrowType \in {"both", "line"}

\* An automatic-layout call has returned an arrow without end arrow for a
\* left edge next to the connector of a both or line edge.
C11_Witness ==
  /\ ArrowKindsCompiled(FALSE)
  /\ \E i \in 1..2 : /\ EdgesOf(ast.statements)[i].arrowType = "left"
                     /\ Connectors[i].type = "arrow"
                     /\ ~Connectors[i].endArrow


-----------------------------------------------------------------------------
(* Layout results that cannot be used *)

\* The layouted graph has children and every child has coordinates.
UsableLayout(graph) ==
  /\ graph.children.defined
  /\ \A k \in 1..Len(graph.children.list) :
        /\ graph.children.list[k].x.tag = "number"
        /\ graph.children.list[k].y.tag = "number"

\* C12: an automatic-layout call returns only when the layout gave every
\* node a position; otherwise it rejects.  A returned call for a graph with
\* nodes has shapes.
C12_LayoutFailureSurfaces ==
  (compilePc = "returned" /\ layoutCalls # <<>>) =>
     /\ UsableLayout(frame.layoutedGraph)
     /\ frame.nodesMap # <<>> => shapes # <<>>

-----------------------------------------------------------------------------
(* SpecConcurrent: compile calls of several callers.  A call runs from one  *)
(* await to the next without interruption; while it is suspended or over,   *)
(* another call may start or go on.  The variables ast, compilePc, frame    *)
(* and shapes describe the call that runs, others the calls that do not.    *)

\* Most calls next to the running one.
MaxOthers == 1

Word_cCircle == <<"c","(","c","i","r","c","l","e",")">>

ConcurrentInputs ==
  { Word_cCircle, Word_aRect00 }

InitConcurrent == InitWith(ConcurrentInputs)

Awaits == {"awaitImport", "awaitGetELK", "awaitLayout"}

\* The position and the locals of the running call.
ThisCall == [pc |-> compilePc, ast |-> ast, frame |-> frame, shapes |-> shapes]

\* The running call is suspended, over, or dropped by its caller.
AtRest == compilePc \in Awaits \cup {"returned", "rejected", "abandoned"}

\* Another caller calls compile: the call gets locals of its own.
CallAgain ==
  /\ AtRest
  /\ Len(others) < MaxOthers
  /\ others' = Append(others, ThisCall)
  /\ compilePc' = "idle"
  /\ ast' = NoDocument
  /\ frame' = NoFrame
  /\ shapes' = FreshShapes(shapes)
  /\ UNCHANGED <<parseVars, decompileVars, panelVars, elkInstance, elkCreated, layoutCalls, uuids>>

\* The event loop turns to another call.
TurnTo ==
  /\ AtRest
  /\ \E k \in 1..Len(others) :
       /\ others' = [others EXCEPT ![k] = ThisCall]
       /\ compilePc' = others[k].pc
       /\ ast' = others[k].ast
       /\ frame' = others[k].frame
       /\ shapes' = others[k].shapes
  /\ UNCHANGED <<parseVars, decompileVars, panelVars, elkInstance, elkCreated, layoutCalls, uuids>>

\* The caller drops the pending call: nothing it awaits is delivered.
Abandon ==
  /\ compilePc \in Awaits
  /\ compilePc' = "abandoned"
  /\ UNCHANGED <<parseVars, decompileVars, panelVars, ast, frame, shapes, elkInstance, elkCreated,
                 layoutCalls, uuids, others>>

NextConcurrent ==
  \/ ParseOnce
  \/ CompileBegin
  \/ ImportDone
  \/ LayoutCall
  \/ LayoutResolve
  \/ LayoutReject
  \/ CallAgain
  \/ TurnTo
  \/ Abandon

SpecConcurrent == InitConcurrent /\ [][NextConcurrent]_vars

\* Every call: the running one first.
AllCalls == <<ThisCall>> \o others

\* A shape list without the ids of its shapes.
WithoutIds(list) ==
  [k \in 1..Len(list) |->
     [f \in DOMAIN list[k] \ {"id"} |-> list[k][f]]]

IdsOf(list) == {list[k].id : k \in 1..Len(list)}

\* What compile returns for a document and a layout result when no other
\* call is made.
ResultAlone(document, layoutedGraph) ==
  Bind(CompileSync(document, NoOptions, 0), LAMBDA r :
    IF r.explicit THEN r.shapes
    ELSE CompileResume(r.frame, layoutedGraph, 0))

NodeMapAlone(document) == CompileSync(document, NoOptions, 0).frame.nodesMap

\* C13: under every interleaving of compile calls, a call is suspended only
\* in the automatic-layout branch, while the layout engine is loaded or
\* lays out, and its result list is empty then, also when the call is
\* dropped; the list a call returns is, up to the ids of the shapes, the one
\* its own document and layout result give when no other call is made, its
\* node map is the one of its own document, and no shape of it is in the
\* list of another call.
C13_CallsDoNotInterfere ==
  \A c \in 1..Len(AllCalls) :
     LET call == AllCalls[c]
     IN /\ call.pc \in Awaits \cup {"abandoned", "rejected"} =>
             /\ call.shapes = <<>>
             /\ ~EveryNodePositioned(call.ast)
        /\ call.pc # "idle" => call.frame.nodesMap = NodeMapAlone(call.ast)
        /\ call.pc = "returned" =>
             /\ WithoutIds(call.shapes) =
                  WithoutIds(ResultAlone(call.ast, call.frame.layoutedGraph))
             /\ Cardinality(IdsOf(call.shapes)) = Len(call.shapes)
             /\ \A d \in 1..Len(AllCalls) :
                   d # c => IdsOf(call.shapes) \cap IdsOf(AllCalls[d].shapes) = {}

\* Two calls on different documents were suspended for the import at the
\* same time, so that each constructed an engine; both have returned shapes.
C13_Witness ==
  /\ others # <<>>
  /\ elkCreated = 2
  /\ compilePc = "returned"
  /\ others[1].pc = "returned"
  /\ others[1].ast # ast
  /\ shapes # <<>>
  /\ others[1].shapes # <<>>


-----------------------------------------------------------------------------
(* decompile.  A shape of the canvas is a record with the fields of its     *)
(* type; x, y, width, height and the coordinates of the points are          *)
(* integers, fill and stroke are texts.  A center is counted in half units. *)

Alphabet == <<"a","b","c","d","e","f","g","h","i","j","k","l","m",
              "n","o","p","q","r","s","t","u","v","w","x","y","z">>

DigitChars == <<"0","1","2","3","4","5","6","7","8","9">>

\* `${n}` for a natural number
RECURSIVE NatToChars(_)
NatToChars(n) ==
  IF n < 10 THEN <<DigitChars[n + 1]>>
  ELSE NatToChars(n \div 10) \o <<DigitChars[(n % 10) + 1]>>

\* Mutant of generateNodeId: the number of a long id is the index itself.
generateNodeId_indexAsNumber(index) ==
  IF index < 26 THEN <<Alphabet[index + 1]>>
  ELSE <<"n","o","d","e">> \o NatToChars(index)

generateNodeId(index) ==
  IF index < 26 THEN <<Alphabet[index + 1]>>
  ELSE <<"n","o","d","e">> \o NatToChars(index + 1)

\* Mutant of shapeToNodeType: a shape without extent is no node.
shapeToNodeType_nonEmpty(shape) ==
  IF shape.type \in {"rectangle", "ellipse"}
     /\ (shape.width = 0 \/ shape.height = 0)
  THEN "null"
  ELSE CASE shape.type = "rectangle" -> "rect"
         [] shape.type = "ellipse" -> "circle"
         [] OTHER -> "null"

shapeToNodeType(shape) ==
  CASE shape.type = "rectangle" -> "rect"
    [] shape.type = "ellipse" -> "circle"
    [] OTHER -> "null"

\* (x + width / 2, y + height / 2), in half units
getShapeCenter(shape) ==
  IF shape.type = "rectangle" \/ shape.type = "ellipse"
  THEN [x |-> 2 * shape.x + shape.width, y |-> 2 * shape.y + shape.height]
  ELSE [x |-> 2 * shape.x, y |-> 2 * shape.y]

\* Mutant of arrowTypeToAST: a start arrow counts only with an end arrow.
arrowTypeToAST_startNeedsEnd(shape) ==
  IF shape.type = "line" THEN "line"
  ELSE IF shape.startArrow /\ shape.endArrow THEN "both"
  ELSE "right"

arrowTypeToAST(shape) ==
  IF shape.type = "line" THEN "line"
  ELSE IF shape.startArrow /\ shape.endArrow THEN "both"
  ELSE IF shape.startArrow THEN "left"
  ELSE "right"

\* threshold of findConnectedNode
ConnectionThreshold == 50

\* dist * dist of findConnectedNode, in squares of half units.
DistanceSquared(point, node) ==
  (2 * point.x - node.centerX) * (2 * point.x - node.centerX)
  + (2 * point.y - node.centerY) * (2 * point.y - node.centerY)

\* The loop of findConnectedNode: closest is the empty text for null, and
\* minSq the square of minDist in half units.
RECURSIVE ClosestLoop(_, _, _, _, _)
ClosestLoop(point, nodeList, k, closest, minSq) ==
  IF k > Len(nodeList) THEN closest
  ELSE Bind(DistanceSquared(point, nodeList[k]), LAMBDA distSq :
         IF distSq < minSq
         THEN ClosestLoop(point, nodeList, k + 1, nodeList[k].id, distSq)
         ELSE ClosestLoop(point, nodeList, k + 1, closest, minSq))

findConnectedNode(point, nodeList, threshold) ==
  ClosestLoop(point, nodeList, 1, <<>>, (2 * threshold) * (2 * threshold))

Chars_white       == <<"#","f","f","f","f","f","f">>
Chars_black       == <<"#","0","0","0","0","0","0">>
Chars_transparent == <<"t","r","a","n","s","p","a","r","e","n","t">>

\* props.join(", ") of formatStyleProps; an absent property is the empty
\* text.
formatStyleProps(style) ==
  Join((IF style.fill # <<>> /\ style.fill # Chars_white
           /\ style.fill # Chars_transparent
        THEN << <<"f","i","l","l",":"," ">> \o style.fill >> ELSE <<>>)
       \o (IF style.stroke # <<>> /\ style.stroke # Chars_black
           THEN << <<"s","t","r","o","k","e",":"," ">> \o style.stroke >>
           ELSE <<>>),
       <<",", " ">>)

arrowTypeToSymbol(arrowType) ==
  CASE arrowType = "left" -> <<"<","-">>
    [] arrowType = "both" -> <<"<","-",">">>
    [] arrowType = "dotted" -> <<"-","-",">">>
    [] arrowType = "thick" -> <<"=","=",">">>
    [] arrowType = "line" -> <<"-","-">>
    [] OTHER -> <<"-",">">>

\* The node of the first pass for a shape, index being nodeIndex.
DecompiledNode(shape, index) ==
  [id |-> generateNodeId(index),
   shape |-> shapeToNodeType(shape),
   centerX |-> getShapeCenter(shape).x,
   centerY |-> getShapeCenter(shape).y,
   style |-> [defined |-> (shape.fill # Chars_white
                           /\ shape.fill # Chars_transparent)
                          \/ shape.stroke # Chars_black,
              fill |-> IF shape.fill # Chars_white
                          /\ shape.fill # Chars_transparent
                       THEN shape.fill ELSE <<>>,
              stroke |-> IF shape.stroke # Chars_black
                         THEN shape.stroke ELSE <<>>]]

\* First pass: the nodes map, in insertion order.
RECURSIVE NodesPass(_, _, _)
NodesPass(list, k, acc) ==
  IF k > Len(list) THEN acc
  ELSE IF shapeToNodeType(list[k]) # "null"
  THEN NodesPass(list, k + 1, Append(acc, DecompiledNode(list[k], Len(acc))))
  ELSE NodesPass(list, k + 1, acc)

\* The edge of the second pass for a connector, or nothing.
DecompiledEdge(shape, nodeList) ==
  IF Len(shape.points) < 2 THEN <<>>
  ELSE Bind(findConnectedNode(shape.points[1], nodeList, ConnectionThreshold),
            LAMBDA fromNode :
       Bind(findConnectedNode(shape.points[Len(shape.points)], nodeList,
                              ConnectionThreshold),
            LAMBDA toNode :
         IF fromNode # <<>> /\ toNode # <<>> /\ fromNode # toNode
         THEN << [from |-> fromNode, to |-> toNode,
                  arrowType |-> arrowTypeToAST(shape)] >>
         ELSE <<>>))

\* Second pass: the edges.
RECURSIVE EdgesPass(_, _, _, _)
EdgesPass(list, k, nodeList, acc) ==
  IF k > Len(list) THEN acc
  ELSE IF list[k].type = "arrow" \/ list[k].type = "line"
  THEN EdgesPass(list, k + 1, nodeList,
                 acc \o DecompiledEdge(list[k], nodeList))
  ELSE EdgesPass(list, k + 1, nodeList, acc)

\* `${node.shape}`
ShapeChars(shape) == IF shape = "circle" THEN Chars_circle ELSE Chars_rect

\* The line of a node; node.label is never set.
NodeLine(node) ==
  Bind(IF node.style.defined THEN formatStyleProps(node.style) ELSE <<>>,
       LAMBDA styleStr :
         IF styleStr # <<>>
         THEN node.id \o <<"(">> \o ShapeChars(node.shape) \o <<",", " ">>
              \o styleStr \o <<")">>
         ELSE node.id \o <<"(">> \o ShapeChars(node.shape) \o <<")">>)

\* The line of an edge; edge.label is never set.
EdgeLine(edge) ==
  edge.from \o <<" ">> \o arrowTypeToSymbol(edge.arrowType) \o <<" ">> \o edge.to

LinesOf(nodeList, edgeList) ==
  [k \in 1..Len(nodeList) |-> NodeLine(nodeList[k])]
  \o (IF Len(nodeList) > 0 /\ Len(edgeList) > 0 THEN << <<>> >> ELSE <<>>)
  \o [k \in 1..Len(edgeList) |-> EdgeLine(edgeList[k])]

decompile(list) ==
  Bind(NodesPass(list, 1, <<>>), LAMBDA nodeList :
    Join(LinesOf(nodeList, EdgesPass(list, 1, nodeList, <<>>)), <<"\n">>))


-----------------------------------------------------------------------------
(* SpecDecompile: one decompile call on a canvas of a few rectangles,       *)
(* ellipses and texts with at most one connector before or after them.      *)

\* Most shapes of a canvas that are no connector.
MaxCanvasNodes == 2

Box(type, x, y, width, height, fill) ==
  [type |-> type, x |-> x, y |-> y, width |-> width, height |-> height,
   fill |-> fill, stroke |-> Chars_black]

Chars_red == <<"#","f","f","0","0","0","0">>

BoxPool ==
  { Box("rectangle", 0, 0, 120, 60, Chars_white),
    Box("rectangle", 200, 0, 120, 60, Chars_white),
    Box("rectangle", 80, 10, 20, 20, Chars_transparent),
    Box("ellipse", 100, 100, 0, 0, Chars_white),
    Box("ellipse", 400, 0, 20, 20, Chars_red),
    [type |-> "text", x |-> 60, y |-> 30, width |-> 10, height |-> 10,
     fill |-> Chars_black, stroke |-> Chars_black] }

PointPool ==
  { Point(60, 30), Point(70, 30), Point(120, 30), Point(200, 30),
    Point(255, 30), Point(100, 100), Point(1000, 1000) }

Connector(type, x, y, startArrow, endArrow, points) ==
  IF type = "line"
  THEN [type |-> "line", x |-> x, y |-> y, points |-> points,
        fill |-> Chars_transparent, stroke |-> Chars_black]
  ELSE [type |-> "arrow", x |-> x, y |-> y, points |-> points,
        startArrow |-> startArrow, endArrow |-> endArrow,
        fill |-> Chars_transparent, stroke |-> Chars_black]

PointPairs == {<<p, q>> : p, q \in PointPool}

ConnectorPool ==
  {Connector("arrow", 0, 0, FALSE, TRUE, pts) :
     pts \in {<<>>} \cup {<<p>> : p \in PointPool} \cup PointPairs
             \cup {<<Point(60, 30), Point(1000, 1000), Point(255, 30)>>}}
  \cup {Connector("arrow", 1000, 1000, FALSE, TRUE, pts) : pts \in PointPairs}
  \cup {Connector(k[1], 0, 0, k[2], k[3], pts) :
          k \in {<<"arrow", TRUE, TRUE>>, <<"arrow", TRUE, FALSE>>,
                 <<"arrow", FALSE, FALSE>>, <<"line", FALSE, FALSE>>},
          pts \in {<<Point(60, 30), Point(255, 30)>>,
                   <<Point(100, 100), Point(1000, 1000)>>}}

CanvasInputs ==
  UNION {{ns \o cs, cs \o ns} :
           ns \in WordSeqs(BoxPool, MaxCanvasNodes),
           cs \in {<<>>} \cup {<<c>> : c \in ConnectorPool}}

InitDecompile == InitOf({<<>>}, CanvasInputs)

DecompileCall ==
  /\ decompiled = <<>>
  /\ decompiled' = <<decompile(canvas)>>
  /\ UNCHANGED <<parseVars, compileVars, canvas, panelVars>>

SpecDecompile == InitDecompile /\ [][DecompileCall]_vars

-----------------------------------------------------------------------------
(* Reading a decompiled text *)

\* The lines of a text: its parts between line feeds.  breaks holds the
\* positions of the line feeds, and 0 and the position after the text.
LineOf(text, breaks, from) ==
  SubSeq(text, from + 1,
         (CHOOSE b \in breaks : b > from /\ \A c \in breaks : c > from => b <= c) - 1)

SplitLines(text) ==
  Bind({0, Len(text) + 1} \cup {k \in 1..Len(text) : text[k] = "\n"},
       LAMBDA breaks :
         [j \in 1..(Cardinality(breaks) - 1) |->
            LineOf(text, breaks,
                   CHOOSE b \in breaks :
                      Cardinality({c \in breaks : c < b}) = j - 1)])

\* A node line has a shape spec in parentheses, an edge line has none.
IsNodeLine(line) == \E k \in 1..Len(line) : line[k] = "("
IsEdgeLine(line) == line # <<>> /\ ~IsNodeLine(line)

NodeLinesOf(text) == SelectSeq(SplitLines(text), IsNodeLine)
EdgeLinesOf(text) == SelectSeq(SplitLines(text), IsEdgeLine)

IsBox(s) == s.type \in {"rectangle", "ellipse"}
IsCanvasConnector(s) == s.type \in {"arrow", "line"}

CanvasBoxes == SelectSeq(canvas, IsBox)
CanvasConnectors == SelectSeq(canvas, IsCanvasConnector)

\* C14: decompile returns a text for every canvas: the empty text for the
\* empty canvas, one node line per rectangle and ellipse, those without
\* extent included, in their order and named a, b, ..., and no edge line
\* for a connector with fewer than two points.
C14_DecompileTotal ==
  decompiled # <<>> =>
     LET text == decompiled[1]
     IN /\ text \in Seq({text[k] : k \in 1..Len(text)})
        /\ canvas = <<>> => text = <<>>
        /\ Len(NodeLinesOf(text)) = Len(CanvasBoxes)
        /\ \A k \in 1..Len(CanvasBoxes) :
              /\ Len(NodeLinesOf(text)[k]) > 1
              /\ NodeLinesOf(text)[k][1] = Alphabet[k]
              /\ NodeLinesOf(text)[k][2] = "("
        /\ Len(EdgeLinesOf(text)) <= Len(CanvasConnectors)
        /\ (\A k \in 1..Len(CanvasConnectors) :
               Len(CanvasConnectors[k].points) < 2) => EdgeLinesOf(text) = <<>>

\* decompile has returned a node line for an ellipse without extent on a
\* canvas whose connector has a single point.
C14_Witness ==
  /\ decompiled # <<>>
  /\ \E k \in 1..Len(CanvasBoxes) :
        /\ CanvasBoxes[k].width = 0
        /\ CanvasBoxes[k].height = 0
        /\ Len(NodeLinesOf(decompiled[1])) >= k
  /\ \E k \in 1..Len(CanvasConnectors) : Len(CanvasConnectors[k].points) = 1
  /\ Len(CanvasBoxes) = 2


-----------------------------------------------------------------------------
(* Endpoints and bounding boxes *)

Max(a, b) == IF a >= b THEN a ELSE b

\* The absolute endpoints of a connector with two or more points: its
\* first and last point, offset by its position.
AbsoluteStart(c) == Point(c.x + c.points[1].x, c.y + c.points[1].y)
AbsoluteEnd(c) ==
  Point(c.x + c.points[Len(c.points)].x, c.y + c.points[Len(c.points)].y)

\* The square of the distance of a point to the bounding box of a shape:
\* 0 inside the box, else the distance to the nearest edge.
BoxDistanceSquared(p, box) ==
  LET dx == Max(Max(box.x - p.x, p.x - (box.x + box.width)), 0)
      dy == Max(Max(box.y - p.y, p.y - (box.y + box.height)), 0)
  IN dx * dx + dy * dy

FartherThan(p, box, units) == BoxDistanceSquared(p, box) > units * units

\* Both absolute endpoints are farther than 50 from every box of the canvas.
FarFromEveryBox(c) ==
  \A k \in 1..Len(CanvasBoxes) :
     /\ FartherThan(AbsoluteStart(c), CanvasBoxes[k], ConnectionThreshold)
     /\ FartherThan(AbsoluteEnd(c), CanvasBoxes[k], ConnectionThreshold)

\* C15: when the absolute endpoints of every connector of the canvas are
\* farther than 50 units from the bounding box of every rectangle and
\* ellipse, the decompiled text has no edge line.
C15_FarConnectorNoEdge ==
  decompiled # <<>> =>
     ((\A k \in 1..Len(CanvasConnectors) :
          Len(CanvasConnectors[k].points) >= 2
             => FarFromEveryBox(CanvasConnectors[k]))
         => EdgeLinesOf(decompiled[1]) = <<>>)


-----------------------------------------------------------------------------
(* SpecRoundTrip: a canvas of two rectangles and an arrow from the border   *)
(* of the first to the border of the second, or from near them, is          *)
(* decompiled; the text is parsed and the document compiled.                *)

\* How far from a border a point near it is.
NearBorder == 5

FirstRectangles ==
  { Box("rectangle", 0, 0, 20, 20, Chars_white),
    Box("rectangle", 0, 0, 120, 60, Chars_white),
    Box("rectangle", 0, 0, 20, 20, Chars_red) }

\* The second rectangle lies 200 to the right of the first.
SecondOf(box) == [box EXCEPT !.x = 200]

\* The middle of the right and of the left border, and the points near them.
RightBorder(box) ==
  {Point(box.x + box.width + d, box.y + box.height \div 2) : d \in {0, NearBorder}}
LeftBorder(box) ==
  {Point(box.x - d, box.y + box.height \div 2) : d \in {0, NearBorder}}

\* The canvases of two given rectangles: the arrow last, first or between.
CanvasesOf(first, second) ==
  UNION {{<<first, second, arrow>>, <<arrow, first, second>>,
          <<first, arrow, second>>} :
           arrow \in {Connector("arrow", 0, 0, FALSE, TRUE, <<pq[1], pq[2]>>) :
                        pq \in RightBorder(first) \X LeftBorder(second)}}

RoundTripInputs ==
  UNION {CanvasesOf(pair[1], SecondOf(pair[2])) :
           pair \in FirstRectangles \X FirstRectangles}

InitRoundTrip == InitOf({<<>>}, RoundTripInputs)

\* parse(text) on the text decompile returned
ParseDecompiled ==
  /\ calls = <<>>
  /\ decompiled # <<>>
  /\ ParseCall(decompiled[1])

NextRoundTrip ==
  \/ DecompileCall
  \/ ParseDecompiled
  \/ CompileBegin
  \/ ImportDone
  \/ LayoutCall
  \/ LayoutResolve
  \/ LayoutReject

SpecRoundTrip == InitRoundTrip /\ [][NextRoundTrip]_vars

Line_aToB == <<"a"," ","-",">"," ","b">>

\* The graph has exactly the nodes a and b and one edge, from a to b.
IsGraphAToB(graph) ==
  /\ Len(graph.children) = 2
  /\ {graph.children[k].id : k \in 1..2} = {<<"a">>, <<"b">>}
  /\ Len(graph.edges) = 1
  /\ graph.edges[1].sources = << <<"a">> >>
  /\ graph.edges[1].targets = << <<"b">> >>

\* C16: for a canvas of two rectangles and an arrow with an end arrow only
\* that starts on or near the border of the first and ends on or near the
\* border of the second, decompile returns two node lines and the one edge
\* line a -> b; parsing the text reports no error; compile of the document
\* takes the automatic-layout branch and hands the layout engine a graph
\* with exactly the nodes a and b and one edge from a to b.
C16_RoundTrip ==
  /\ decompiled # <<>> =>
        /\ Len(NodeLinesOf(decompiled[1])) = 2
        /\ EdgeLinesOf(decompiled[1]) = <<Line_aToB>>
  /\ calls # <<>> => returned[1].errors = <<>>
  /\ (calls # <<>> /\ compilePc # "idle" /\ ast = DocOf(1)) =>
        /\ compilePc \in Awaits \cup {"returned", "rejected"}
        /\ frame.elkGraph # NoGraph
        /\ IsGraphAToB(frame.elkGraph)
        /\ \A k \in 1..Len(layoutCalls) : IsGraphAToB(layoutCalls[k].graph)
        /\ compilePc \in {"awaitLayout", "returned", "rejected"}
              => Len(layoutCalls) = 1

-----------------------------------------------------------------------------
(* SpecChain: one parse call on a text that is a single chain: the node a, *)
(* then up to MaxChain times an arrow, a target node and what the text     *)
(* writes after the target.                                                 *)

\* Longest chain of SpecChain, in arrows.
MaxChain == 2

ChainArrows == { [sym |-> <<"-", ">">>, type |-> "right"],
                 [sym |-> <<"-", "-">>, type |-> "line"] }

ChainTargets == { <<"b">>, <<"c">> }

Chars_labelX  == <<":", " ", "\"", "x", "\"">>
Chars_labelN  == <<":", " ", "\"", "n", "\"">>
Chars_anchors == <<"(", "x", "1", ":", "1", ",", "y", "1", ":", "2", ",",
                   "x", "2", ":", "3", ",", "y", "2", ":", "4", ")">>

\* What is written after the target node: nothing; a label; a label when
\* the node has a label of its own; anchors; anchors when the node has a
\* shape of its own.
ChainSuffixes ==
  { [text |-> <<>>, label |-> FALSE, anchors |-> FALSE],
    [text |-> Chars_labelX, label |-> TRUE, anchors |-> FALSE],
    [text |-> Chars_labelN \o Chars_labelX, label |-> TRUE, anchors |-> FALSE],
    [text |-> Chars_anchors, label |-> FALSE, anchors |-> TRUE],
    [text |-> <<"(">> \o Chars_rect \o <<")">> \o Chars_anchors,
     label |-> FALSE, anchors |-> TRUE] }

ChainSegments ==
  [arrow : ChainArrows, to : ChainTargets, suffix : ChainSuffixes]

SegmentText(s) == <<" ">> \o s.arrow.sym \o <<" ">> \o s.to \o s.suffix.text

RECURSIVE ChainText(_)
ChainText(ch) ==
  IF ch = <<>> THEN <<"a">>
  ELSE ChainText(SubSeq(ch, 1, Len(ch) - 1)) \o SegmentText(ch[Len(ch)])

ChainInputs ==
  {ChainText(ch) : ch \in UNION {[1..n -> ChainSegments] : n \in 0..MaxChain}}

InitChain == InitWith(ChainInputs)

SpecChain == InitChain /\ [][ParseOnce]_vars

\* The segment a text starts with: the one whose text is followed by the
\* end of the text or by the blank of the next segment.
StartsWith(text, s) ==
  Bind(SegmentText(s), LAMBDA t :
    /\ Len(t) <= Len(text)
    /\ SubSeq(text, 1, Len(t)) = t
    /\ (Len(t) = Len(text) \/ text[Len(t) + 1] = " "))

RECURSIVE SegmentsOf(_, _)
SegmentsOf(text, acc) ==
  IF text = <<>> THEN acc
  ELSE Bind(CHOOSE s \in ChainSegments : StartsWith(text, s), LAMBDA s :
         SegmentsOf(SubSeq(text, Len(SegmentText(s)) + 1, Len(text)),
                    Append(acc, s)))

\* The chain a text of ChainInputs writes.
ChainOf(text) == SegmentsOf(Tail(text), <<>>)

\* What the production edgeOrNode returns for the chain of the text.
ChainResult(text) ==
  edgeOrNode_visit(CstOf(text).statement[1].edgeOrNode[1],
                   [nodes |-> <<>>, heap |-> <<>>]).result

\* Edge i of the chain goes from the target of edge i-1, or from the left
\* node, to target i with the type of arrow i.
LinksChain(edges, ch) ==
  /\ Len(edges) = Len(ch)
  /\ \A i \in 1..Len(ch) :
       /\ edges[i].type = "edge"
       /\ edges[i].from = (IF i = 1 THEN <<"a">> ELSE ch[i - 1].to)
       /\ edges[i].to = ch[i].to
       /\ edges[i].arrowType = ch[i].arrow.type

\* C17: a chain of n >= 1 arrows that parse accepts yields exactly n Edge
\* statements in source order, edge 1 from the left node to the first
\* target and edge i > 1 from the target of edge i-1 to target i, each with
\* the type of its arrow; what the production returns holds these edges
\* and no Node statement.
C17_ChainEdges ==
  (calls # <<>> /\ DocOf(1).errors = <<>> /\ ChainOf(input) # <<>>) =>
     /\ LinksChain(EdgesOf(DocOf(1).statements), ChainOf(input))
     /\ ChainResult(input) = EdgesOf(DocOf(1).statements)

\* A chain of two arrows of different types through b to c has been parsed.
C17_Witness ==
  /\ calls # <<>>
  /\ DocOf(1).errors = <<>>
  /\ Len(ChainOf(input)) = 2
  /\ ChainOf(input)[1].arrow.type # ChainOf(input)[2].arrow.type
  /\ ChainOf(input)[1].to = <<"b">>
  /\ ChainOf(input)[2].to = <<"c">>
  /\ Len(EdgesOf(DocOf(1).statements)) = 2

\* The label and the anchors of edge i are those written after target i.
OwnSuffix(edges, ch) ==
  /\ Len(edges) = Len(ch)
  /\ \A i \in 1..Len(ch) :
       /\ edges[i].label = (IF ch[i].suffix.label THEN Str(<<"x">>) ELSE Undef)
       /\ <<edges[i].x1, edges[i].y1, edges[i].x2, edges[i].y2>>
            = (IF ch[i].suffix.anchors
               THEN <<Num(1), Num(2), Num(3), Num(4)>>
               ELSE <<Undef, Undef, Undef, Undef>>)

\* C18: the anchor spec or the label written after the i-th arrow and its
\* target is attached to the i-th edge of the chain and to no other edge,
\* also when earlier arrows have none: in a -> b -> c: "x" the label is on
\* the edge b->c and in a -> b: "x" on the edge a->b.
C18_SuffixOnOwnEdge ==
  (calls # <<>> /\ ChainOf(input) # <<>>) =>
     /\ DocOf(1).errors = <<>>
     /\ OwnSuffix(EdgesOf(DocOf(1).statements), ChainOf(input))

-----------------------------------------------------------------------------
(* Resolving endpoints by the distance to the bounding boxes *)

\* The boxes of the canvas, by their position among them, that are nearest
\* to the point by the distance to their bounding box, within the
\* threshold.
NearestBoxes(p) ==
  {k \in 1..Len(CanvasBoxes) :
     /\ ~FartherThan(p, CanvasBoxes[k], ConnectionThreshold)
     /\ \A j \in 1..Len(CanvasBoxes) :
           BoxDistanceSquared(p, CanvasBoxes[k])
             <= BoxDistanceSquared(p, CanvasBoxes[j])}

\* The edge line goes from the i-th to the j-th box of the canvas.
Joins(line, i, j) ==
  /\ Len(line) > 2
  /\ line[1] = Alphabet[i]
  /\ line[Len(line)] = Alphabet[j]

\* C19: each endpoint of a connector resolves to the rectangle or ellipse
\* whose bounding box is nearest to it, within 50 units; so a connector
\* whose endpoints lie inside or on the border of one box each, two
\* different boxes, gives the edge line between these two, whatever their
\* size, and a connector with an endpoint farther than 50 from every box
\* gives none.
C19_ResolvesByBoxDistance ==
  decompiled # <<>> =>
     \A c \in {CanvasConnectors[k] : k \in 1..Len(CanvasConnectors)} :
        Len(c.points) >= 2 =>
           /\ \A i \in NearestBoxes(AbsoluteStart(c)) :
                 \A j \in NearestBoxes(AbsoluteEnd(c)) :
                    (/\ NearestBoxes(AbsoluteStart(c)) = {i}
                     /\ NearestBoxes(AbsoluteEnd(c)) = {j}
                     /\ i # j)
                       => /\ Len(EdgeLinesOf(decompiled[1])) = 1
                          /\ Joins(EdgeLinesOf(decompiled[1])[1], i, j)
           /\ (NearestBoxes(AbsoluteStart(c)) = {}
                 \/ NearestBoxes(AbsoluteEnd(c)) = {})
                => EdgeLinesOf(decompiled[1]) = <<>>

\* The boxes of the canvas within the threshold of the point.
BoxesInThreshold(p) ==
  {k \in 1..Len(CanvasBoxes) :
     ~FartherThan(p, CanvasBoxes[k], ConnectionThreshold)}

\* Both endpoints of the connector resolve to the same box, and another box
\* is within the threshold of one of them.
SameBoxWithAlternative(c) ==
  \E i \in 1..Len(CanvasBoxes) :
     /\ NearestBoxes(AbsoluteStart(c)) = {i}
     /\ NearestBoxes(AbsoluteEnd(c)) = {i}
     /\ (BoxesInThreshold(AbsoluteStart(c))
           \cup BoxesInThreshold(AbsoluteEnd(c))) # {i}

\* C20: no edge line goes from a node to itself; and a connector whose
\* endpoints both resolve to the same node while another node is within
\* the threshold of one of them is not dropped: the second-closest node
\* takes the place of the end, else of the start, and the edge line joins
\* two different nodes.
C20_NoSelfLoopButSubstitution ==
  decompiled # <<>> =>
     /\ \A k \in 1..Len(EdgeLinesOf(decompiled[1])) :
           EdgeLinesOf(decompiled[1])[k][1]
             # EdgeLinesOf(decompiled[1])[k][Len(EdgeLinesOf(decompiled[1])[k])]
     /\ \A k \in 1..Len(CanvasConnectors) :
           (Len(CanvasConnectors[k].points) >= 2
              /\ SameBoxWithAlternative(CanvasConnectors[k]))
             => Len(EdgeLinesOf(decompiled[1])) = 1

-----------------------------------------------------------------------------
(* SpecManyBoxes: one decompile call on a canvas of up to MaxBoxes          *)
(* rectangles or ellipses, with or without a text shape among them.         *)

\* Most rectangles and ellipses of a canvas of SpecManyBoxes.
MaxBoxes == 28

TextShape ==
  [type |-> "text", x |-> 60, y |-> 30, width |-> 10, height |-> 10,
   fill |-> Chars_black, stroke |-> Chars_black]

\* n times the box, the k-th at x = 100 * k.
Row(type, n) == [k \in 1..n |-> Box(type, 100 * k, 0, 20, 20, Chars_white)]

\* The list with the shape put in after its first p elements.
InsertAfter(list, p, shape) ==
  SubSeq(list, 1, p) \o <<shape>> \o SubSeq(list, p + 1, Len(list))

ManyBoxesInputs ==
  UNION {{Row(type, n)} \cup {InsertAfter(Row(type, n), p, TextShape) : p \in 0..n} :
           type \in {"rectangle", "ellipse"}, n \in 0..MaxBoxes}

InitManyBoxes == InitOf({<<>>}, ManyBoxesInputs)

SpecManyBoxes == InitManyBoxes /\ [][DecompileCall]_vars

\* The id a node line starts with: the line up to its parenthesis.
RECURSIVE IdOfLine(_, _)
IdOfLine(line, k) ==
  IF k > Len(line) \/ line[k] = "(" THEN SubSeq(line, 1, k - 1)
  ELSE IdOfLine(line, k + 1)

\* The id of the k-th rectangle or ellipse, k counted from 1 and below 100.
KthId(k) ==
  IF k <= 26 THEN <<Alphabet[k]>>
  ELSE <<"n", "o", "d", "e", DigitChars[(k \div 10) + 1], DigitChars[(k % 10) + 1]>>

\* C21: the k-th rectangle or ellipse of the canvas, other shapes skipped,
\* has as id the k-th lowercase letter for k <= 26 and node<k> for k >= 27;
\* the ids are pairwise distinct and the text has one node line per such
\* shape, in their order.
C21_NodeIds ==
  decompiled # <<>> =>
     Bind(NodeLinesOf(decompiled[1]), LAMBDA lines :
       /\ Len(lines) = Len(CanvasBoxes)
       /\ \A k \in 1..Len(lines) :
             /\ IdOfLine(lines[k], 1) = KthId(k)
             /\ lines[k] = KthId(k) \o <<"(">>
                             \o (IF CanvasBoxes[k].type = "ellipse"
                                 THEN Chars_circle ELSE Chars_rect)
                             \o <<")">>
       /\ \A j, k \in 1..Len(lines) :
             j # k => IdOfLine(lines[j], 1) # IdOfLine(lines[k], 1))

\* A canvas of 28 ellipses with a text shape before the 27th has been
\* decompiled.
C21_Witness ==
  /\ decompiled # <<>>
  /\ Len(CanvasBoxes) = 28
  /\ Len(canvas) = 29
  /\ canvas[27].type = "text"
  /\ canvas[28].type = "ellipse"
  /\ Len(NodeLinesOf(decompiled[1])) = 28

-----------------------------------------------------------------------------
(* The symbol of an edge line *)

\* The symbol a connector is written with.
SymbolOf(c) ==
  IF c.type = "line" THEN <<"-", "-">>
  ELSE IF c.startArrow /\ c.endArrow THEN <<"<", "-", ">">>
  ELSE IF c.startArrow THEN <<"<", "-">>
  ELSE <<"-", ">">>

\* The symbol of an edge line between two nodes with one-letter ids.
SymbolIn(line) == SubSeq(line, 3, Len(line) - 2)

\* C22: the edge line of a resolved connector has -- for a line, <-> for
\* an arrow with start and end arrow, <- for an arrow with a start arrow
\* only and -> for every other arrow, one with neither flag included; no
\* edge line has --> or ==>.
C22_EdgeSymbols ==
  decompiled # <<>> =>
     \A k \in 1..Len(EdgeLinesOf(decompiled[1])) :
        Bind(EdgeLinesOf(decompiled[1])[k], LAMBDA line :
          /\ Len(CanvasConnectors) = 1
          /\ line[2] = " "
          /\ line[Len(line) - 1] = " "
          /\ SymbolIn(line) = SymbolOf(CanvasConnectors[1])
          /\ SymbolIn(line) \notin {<<"-", "-", ">">>, <<"=", "=", ">">>})

\* The canvas has an arrow with the given flags, or a line, and the text
\* its edge line.
ResolvedConnector(type, startArrow, endArrow) ==
  /\ decompiled # <<>>
  /\ Len(EdgeLinesOf(decompiled[1])) = 1
  /\ Len(CanvasConnectors) = 1
  /\ CanvasConnectors[1].type = type
  /\ type = "arrow" => /\ CanvasConnectors[1].startArrow = startArrow
                       /\ CanvasConnectors[1].endArrow = endArrow

\* An arrow with a start arrow only has been decompiled to an edge line.
C22_Witness == ResolvedConnector("arrow", TRUE, FALSE)

-----------------------------------------------------------------------------
(* Groups *)

IsGroup(stmt) == stmt.type = "group"
IsGroupCtx(ctx) == ctx.groupDef # <<>>

\* The ids referenced by the statements of a list of the CST.
IdsIn(stmts) ==
  {RefsOfStatements(stmts)[k].id : k \in 1..Len(RefsOfStatements(stmts))}

\* The ids referenced in the j-th statement of the CST's list and in no
\* other statement of it.
IdsOnlyIn(stmts, j) ==
  IdsIn(<<stmts[j]>>)
    \ IdsIn(SubSeq(stmts, 1, j - 1) \o SubSeq(stmts, j + 1, Len(stmts)))

\* The ids of the Node statements of a list of statements of a Document.
NodeIdsAmong(statements) ==
  {heap[statements[k].ref].id :
     k \in {j \in 1..Len(statements) : statements[j].type = "node"}}

\* C23: a GroupDef yields one Group statement whose children are collected
\* from its body as a document's statements are: the statements of the
\* body in source order, with the Node statements of the nodes referenced
\* only inside the body, so that such a node is among the group's children.
C23_GroupChildrenHoldNodes ==
  \A k \in 1..Len(returned) :
     returned[k].errors = <<>> =>
        Bind(CstOf(calls[k]).statement, LAMBDA stmts :
        Bind(SelectSeq(returned[k].statements, IsGroup), LAMBDA groups :
          /\ Len(groups) = Len(SelectSeq(stmts, IsGroupCtx))
          /\ \A j \in 1..Len(stmts) :
                IsGroupCtx(stmts[j]) =>
                   IdsOnlyIn(stmts, j)
                     \subseteq NodeIdsAmong(
                       groups[Len(SelectSeq(SubSeq(stmts, 1, j), IsGroupCtx))]
                         .children)))

-----------------------------------------------------------------------------
(* SpecGroups: one parse call on a text of up to MaxGroupWords words that   *)
(* open and close groups and refer to nodes inside and outside of them.     *)

MaxGroupWords == 5

Word_groupG == <<"g","r","o","u","p"," ","g"," ","{">>
Word_cToA   == <<"c"," ","-",">"," ","a">>

GroupWords == { Word_groupG, <<"}">>, <<"a">>, <<"-",">"," ","b">>, Word_cToA }

GroupInputs == Texts(GroupWords, MaxGroupWords)

InitGroups == InitWith(GroupInputs)

SpecGroups == InitGroups /\ [][ParseOnce]_vars

\* The Edge statements of a statement list and of its groups, at any depth.
RECURSIVE EdgesWithin(_)
EdgesWithin(statements) ==
  IF statements = <<>> THEN {}
  ELSE (IF statements[1].type = "edge" THEN {statements[1]}
        ELSE IF statements[1].type = "group"
        THEN EdgesWithin(statements[1].children)
        ELSE {})
       \cup EdgesWithin(Tail(statements))

\* The positions of the Node statements with the id in a statement list.
NodePositions(statements, id) ==
  {j \in 1..Len(statements) : IsNodeWithId(statements[j], id)}

\* C24: after an error-free parse the top-level statement list has exactly
\* one Node statement for each node id referenced in the text, standalone,
\* in a chain or inside a group at any depth, and none for another id; the
\* from and to of every Edge, at top level or inside a group, are ids of
\* these Node statements.
C24_OneNodePerReferencedId ==
  \A k \in 1..Len(returned) :
     returned[k].errors = <<>> =>
        Bind(DocOf(k).statements, LAMBDA d :
        Bind(IdsIn(CstOf(calls[k]).statement), LAMBDA ids :
          /\ \A id \in ids : Cardinality(NodePositions(d, id)) = 1
          /\ \A j \in 1..Len(d) : d[j].type = "node" => d[j].id \in ids
          /\ \A e \in EdgesWithin(d) :
                /\ NodePositions(d, e.from) # {}
                /\ NodePositions(d, e.to) # {}))

\* The text with the edge c -> a inside a group inside a group has been
\* parsed without error.
C24_Witness ==
  /\ returned # <<>>
  /\ calls[1] = Word_groupG \o <<" ">> \o Word_groupG \o <<" ">> \o Word_cToA
                  \o <<" ", "}", " ", "}">>
  /\ returned[1].errors = <<>>
  /\ NodePositions(DocOf(1).statements, <<"c">>) # {}

-----------------------------------------------------------------------------
(* Parsing a decompiled text *)

IsNode(stmt) == stmt.type = "node"
IsEdge(stmt) == stmt.type = "edge"

\* C25: parsing the text decompile returned reports no lexical and no
\* syntax error, and the document has one node per node line and one edge
\* per edge line of the text, also when a rectangle or ellipse of the
\* canvas has a fill or stroke that is not the default.
C25_DecompiledTextParses ==
  (decompiled # <<>> /\ calls # <<>> /\ calls[1] = decompiled[1]) =>
     /\ tokenize(decompiled[1]).errors = <<>>
     /\ returned[1].errors = <<>>
     /\ Len(SelectSeq(DocOf(1).statements, IsNode))
          = Len(NodeLinesOf(decompiled[1]))
     /\ Len(SelectSeq(DocOf(1).statements, IsEdge))
          = Len(EdgeLinesOf(decompiled[1]))

-----------------------------------------------------------------------------
(* SpecNested: parse and compile of a text of up to MaxItems statements,    *)
(* among them groups with nodes and edges inside, a layout statement and a  *)
(* free arrow.                                                              *)

MaxItems == 2

Word_freeArrow == <<"a","r","r","o","w">> \o Chars_anchors
Word_layoutF   == <<"@","l","a","y","o","u","t",":"," ","f">>
Word_aToBPlaced == Word_aRect00 \o <<" ","-",">"," ">> \o Word_bRect82

\* The statements between the braces of a group g.
InGroup(body) == Word_groupG \o <<" ">> \o body \o <<" ", "}">>

NestedItems ==
  { Word_aRect00, Word_aToBPlaced, Word_cToA, Text_aToB,
    InGroup(Text_aToB), InGroup(Word_aToBPlaced), InGroup(<<"c">>),
    InGroup(InGroup(Word_cToA)),
    Word_layoutF, Word_freeArrow }

NestedInputs == Texts(NestedItems, MaxItems)

InitNested == InitWith(NestedInputs)

SpecNested == InitNested /\ [][NextCompile]_vars

\* The layout returned the children and the edges it was given, routed or
\* not and in either order.
ListsChildrenAndEdges(layoutedGraph) ==
  layoutedGraph.children.defined /\ layoutedGraph.edges.defined

\* C26: compile returns one node shape per distinct node id of the document
\* and one connector per top-level Edge statement, the node shapes first;
\* the Edge statements among a group's children, and Layout and FreeArrow
\* statements, add no shape: group g { a -> b } compiles to two node shapes
\* and no connector.  In automatic-layout mode this is the result for a
\* layout that lists the children and edges submitted.
C26_ShapesOfTopLevel ==
  (compilePc = "returned"
     /\ (layoutCalls # <<>> => ListsChildrenAndEdges(frame.layoutedGraph))) =>
     /\ shapes = NodeShapes \o Connectors
     /\ Len(NodeShapes) = Cardinality(NodeIdsOfDocument(ast))
     /\ {NodeShapes[k].of : k \in 1..Len(NodeShapes)} = NodeIdsOfDocument(ast)
     /\ Len(Connectors) = Len(EdgesOf(ast.statements))
     /\ (calls[1] \in {InGroup(Text_aToB), InGroup(Word_aToBPlaced)}
           /\ ast = DocOf(1))
          => Len(NodeShapes) = 2 /\ Connectors = <<>>

\* group g { a -> b } has been compiled by a layout that lists the two
\* children: there are two node shapes.
C26_Witness ==
  /\ compilePc = "returned"
  /\ ast = DocOf(1)
  /\ calls[1] = InGroup(Text_aToB)
  /\ layoutCalls # <<>>
  /\ ListsChildrenAndEdges(frame.layoutedGraph)
  /\ Len(NodeShapes) = 2

-----------------------------------------------------------------------------
(* Pairing returned layout edges with the edges submitted *)

\* C27: in automatic-layout mode the connector made of the returned edge at
\* any position of the returned list has the arrow type of the AST edge
\* that was submitted under the same id e<i>: a line for line, an arrow
\* with its flags otherwise, whatever the order of the returned edges.
C27_PairedByEdgeId ==
  (compilePc = "returned" /\ layoutCalls # <<>>
     /\ ListsChildrenAndEdges(frame.layoutedGraph)) =>
     \A k \in 1..Len(frame.layoutedGraph.edges.list) :
        \A j \in 1..Len(frame.elkGraph.edges) :
           frame.elkGraph.edges[j].id = frame.layoutedGraph.edges.list[k].id
              => /\ Len(Connectors) >= k
                 /\ MapsArrowType(frame.edges[j], Connectors[k])

-----------------------------------------------------------------------------
(* The layout engine of concurrent calls *)

\* C28: under every interleaving of compile calls in automatic-layout mode,
\* also of calls that start before the first import has resolved, the
\* layout engine is constructed at most once and every call lays out with
\* that one engine.
C28_OneEngine ==
  /\ elkCreated <= 1
  /\ \A j, k \in 1..Len(layoutCalls) : layoutCalls[j].elk = layoutCalls[k].elk
  /\ \A c \in 1..Len(AllCalls) :
        AllCalls[c].pc \in {"awaitGetELK", "awaitLayout", "returned"}
           /\ AllCalls[c].frame.elk # 0
          => AllCalls[c].frame.elk = 1

-----------------------------------------------------------------------------
(* SpecRuns: runs of CodePanel's handleRun on the canvas store.  A run is   *)
(* the running call or one of others: its position is compilePc, which is   *)
(* awaitParser while parseAndCompile awaits the import of the parser,       *)
(* parseErrors when parseAndCompile has returned the errors of parse,       *)
(* finished when handleRun has put the shapes into the store and reported   *)
(* when it has set errors instead.                                          *)

\* The options handleRun hands to parseAndCompile.
RunOptions == [algorithm |-> "layered", direction |-> "DOWN",
               nodeSpacing |-> Num(60), edgeSpacing |-> Undef]

\* The texts of the code panel.
RunInputs == { Word_aRect00, Word_cCircle, Text_synError }

\* A store the user has drawn in, selected in and panned.
UsedStore ==
  [shapes |-> << createNodeShape(99, <<"z">>, Num(1), Num(1), Num(10),
                                 Num(10), BareNode(<<"z">>)) >>,
   selectedIds |-> <<99>>,
   camera |-> [x |-> 5, y |-> 7, zoom |-> 2]]

InitRuns == InitPanel({<<>>}, {<<>>}, {initialState, UsedStore})

\* Mutant of parseAndCompile: the document is compiled whatever its errors.
parseAndCompile_errorsIgnored(document, options, uid0) ==
  Bind(CompileSync(document, options, uid0), LAMBDA c :
    [errors |-> FALSE, explicit |-> c.explicit, frame |-> c.frame,
     shapes |-> c.shapes])

\* parseAndCompile from the parsed document to the first await of compile
\* or to its return: with parse errors compile is not called.
parseAndCompile(document, options, uid0) ==
  IF Len(document.errors) > 0
  THEN [errors |-> TRUE, explicit |-> FALSE, frame |-> NoFrame,
        shapes |-> <<>>]
  ELSE Bind(CompileSync(document, options, uid0), LAMBDA c :
         [errors |-> FALSE, explicit |-> c.explicit, frame |-> c.frame,
          shapes |-> c.shapes])

\* Mutant of clear: the shapes stay.
clear_shapesKept(st) ==
  [st EXCEPT !.selectedIds = initialState.selectedIds,
             !.camera = initialState.camera]

\* clear: () => set(initialState)
clear(st) == initialState

\* addShape: (shape) => set((state) => ({ shapes: [...state.shapes, shape] }))
addShape(st, shape) == [st EXCEPT !.shapes = Append(@, shape)]

\* for (const shape of result.shapes) addShape(shape)
RECURSIVE AddShapes(_, _, _)
AddShapes(st, list, k) ==
  IF k > Len(list) THEN st
  ELSE AddShapes(addShape(st, list[k]), list, k + 1)

\* handleRun is called: it sets isCompiling, empties errors and calls
\* parseAndCompile, which awaits the import of the parser.
RunStart ==
  /\ compilePc = "idle"
  /\ isCompiling' = TRUE
  /\ errors' = <<>>
  /\ compilePc' = "awaitParser"
  /\ UNCHANGED <<parseVars, decompileVars, store, ast, frame, shapes,
                 elkInstance, elkCreated, layoutCalls, uuids, others>>

\* The import resolves: parseAndCompile parses the code of the run, one of
\* RunInputs, and returns its errors or calls compile, which runs to its
\* return or to its first await.
RunParse ==
  /\ compilePc = "awaitParser"
  /\ \E t \in RunInputs :
       \E r \in {parse(t, ParserState)} :
          \E c \in {parseAndCompile(Deref(r.doc, r.ps.heap), RunOptions, uuids)} :
             /\ input' = t
             /\ parserInput' = r.ps.parserInput
             /\ parserErrors' = r.ps.parserErrors
             /\ nodes' = r.ps.nodes
             /\ heap' = r.ps.heap
             /\ calls' = Append(calls, t)
             /\ returned' = Append(returned, r.doc)
             /\ ast' = Deref(r.doc, r.ps.heap)
             /\ frame' = [c.frame EXCEPT !.elk = elkInstance]
             /\ shapes' = shapes \o c.shapes
             /\ uuids' = uuids + Len(c.shapes)
             /\ compilePc' = IF c.errors THEN "parseErrors"
                             ELSE IF c.explicit THEN "returned"
                             ELSE IF elkInstance = 0 THEN "awaitImport"
                             ELSE "awaitGetELK"
  /\ UNCHANGED <<lexResult, decompileVars, panelVars, elkInstance, elkCreated,
                 layoutCalls, others>>

\* result.errors.map((e) => e.message)
Messages(list) == [k \in 1..Len(list) |-> list[k].message]

\* handleRun goes on after its await: with errors in the result it sets
\* errors; with none it clears the store and adds the shapes; when the
\* await has thrown it sets errors to the message; then isCompiling is
\* reset.
RunResume ==
  /\ compilePc \in {"parseErrors", "returned", "rejected"}
  /\ store' = IF compilePc = "returned"
              THEN AddShapes(clear(store), shapes, 1) ELSE store
  /\ errors' = IF compilePc = "parseErrors" THEN Messages(ast.errors)
               ELSE IF compilePc = "rejected" THEN <<"layout">>
               ELSE errors
  /\ isCompiling' = FALSE
  /\ compilePc' = IF compilePc = "returned" THEN "finished" ELSE "reported"
  /\ UNCHANGED <<parseVars, decompileVars, ast, frame, shapes, elkInstance,
                 elkCreated, layoutCalls, uuids, others>>

\* The run is suspended or over.
RunAtRest ==
  compilePc \in Awaits \cup {"awaitParser", "parseErrors", "returned",
                             "rejected", "finished", "reported"}

\* handleRun is called while the run before it is suspended or over.
RunAgain ==
  /\ RunAtRest
  /\ Len(others) < MaxOthers
  /\ others' = Append(others, ThisCall)
  /\ compilePc' = "idle"
  /\ ast' = NoDocument
  /\ frame' = NoFrame
  /\ shapes' = FreshShapes(shapes)
  /\ UNCHANGED <<parseVars, decompileVars, panelVars, elkInstance, elkCreated,
                 layoutCalls, uuids>>

\* The event loop turns to another run that has something to go on with.
RunTurnTo ==
  /\ RunAtRest
  /\ \E k \in 1..Len(others) :
       /\ others[k].pc \notin {"finished", "reported"}
       /\ others' = [others EXCEPT ![k] = ThisCall]
       /\ compilePc' = others[k].pc
       /\ ast' = others[k].ast
       /\ frame' = others[k].frame
       /\ shapes' = others[k].shapes
  /\ UNCHANGED <<parseVars, decompileVars, panelVars, elkInstance, elkCreated,
                 layoutCalls, uuids>>

NextRuns ==
  \/ RunStart
  \/ RunParse
  \/ ImportDone
  \/ LayoutCall
  \/ LayoutResolve
  \/ LayoutReject
  \/ RunResume
  \/ RunAgain
  \/ RunTurnTo

SpecRuns == InitRuns /\ [][NextRuns]_vars

\* Every run has put its shapes into the store.  The running call is then
\* the run that resumed last: no run that is over is turned to.
AllFinished == \A c \in 1..Len(AllCalls) : AllCalls[c].pc = "finished"

\* C29: when overlapping runs have all finished without error, the shape
\* list of the store is, in order, the compiled list of the run that
\* resumed last; at no time does the store hold shapes of two runs, and it
\* holds a shape of a run only as the whole list of that run.
C29_StoreHoldsOneRun ==
  /\ AllFinished => store.shapes = shapes
  /\ \A c \in 1..Len(AllCalls) :
        IdsOf(store.shapes) \cap IdsOf(AllCalls[c].shapes) # {}
           => /\ store.shapes = AllCalls[c].shapes
              /\ AllCalls[c].pc = "finished"

\* Two runs on different texts have finished; the one that started first
\* resumed last, and the store holds its shapes.
C29_Witness ==
  /\ AllFinished
  /\ Len(others) = 1
  /\ others[1].ast # ast
  /\ others[1].shapes # <<>>
  /\ shapes # <<>>
  /\ \A i \in IdsOf(shapes) : \A j \in IdsOf(others[1].shapes) : i < j
  /\ store.shapes = shapes


\* The runs whose text parsed and that have gone past the parse.
RunsCompiled ==
  {c \in 1..Len(AllCalls) : /\ AllCalls[c].ast.errors = <<>>
                            /\ AllCalls[c].pc \notin {"idle", "awaitParser"}}

\* A run whose parse reported errors has not entered compile: it has no
\* shapes, no node map, no graph and no layout result, and it is at the
\* return of parseAndCompile or over with its errors set.
NotCompiled(c) ==
  /\ c.pc \in {"parseErrors", "reported"}
  /\ c.shapes = <<>>
  /\ c.frame.nodesMap = <<>>
  /\ c.frame.edges = <<>>
  /\ c.frame.elkGraph = NoGraph
  /\ c.frame.layoutedGraph = NoLayout

\* The step of a run that ends with errors: the store is as it was, errors
\* holds the messages and isCompiling is false.
EndsWithErrors ==
  /\ compilePc \in {"parseErrors", "rejected"}
  /\ compilePc' = "reported"
  => /\ store' = store
     /\ errors' = (IF compilePc = "parseErrors" THEN Messages(ast.errors)
                   ELSE <<"layout">>)
     /\ errors' # <<>>
     /\ isCompiling' = FALSE

\* C30: a run whose text has parse errors never enters compile and never
\* calls the layout engine, and its shapes are empty; the step that ends
\* such a run, or a run whose compile threw, leaves shapes, selection and
\* camera of the store as they were, sets errors to the messages and
\* isCompiling to false; the store changes only in the step of a run that
\* returned shapes.
C30_ErrorsLeaveStore ==
  /\ [](/\ \A c \in 1..Len(AllCalls) :
              AllCalls[c].ast.errors # <<>> => NotCompiled(AllCalls[c])
        /\ Len(layoutCalls) <= Cardinality(RunsCompiled))
  /\ [][/\ EndsWithErrors
        /\ store' # store => compilePc = "returned" /\ ast.errors = <<>>]_vars

\* A run on a text with a syntax error is over on a used store: the store
\* is as the user left it, the messages are set, isCompiling is false.
C30_Witness ==
  /\ others = <<>>
  /\ compilePc = "reported"
  /\ ast.errors # <<>>
  /\ shapes = <<>>
  /\ layoutCalls = <<>>
  /\ store = UsedStore
  /\ errors = Messages(ast.errors)
  /\ errors # <<>>
  /\ isCompiling = FALSE

=============================================================================
